---- MODULE Spec2Model ----
(***************************************************************************)
(* Aggregator.build() of repo-dashboard (src/src/dashboard/services/       *)
(* aggregator.py) as a state machine.  One build() runs on a cooperative   *)
(* event loop: a step of the model is the stretch of code between two      *)
(* awaits, taken when the awaited upstream call answers (with records or   *)
(* with an exception).  Sibling coroutines started by asyncio.gather       *)
(* interleave at these steps in every order.                               *)
(***************************************************************************)
EXTENDS Integers, Sequences, FiniteSets, TLC

\* ------------------------------------------------------------------ bounds

\* repo records the repository host lists within one build()
MaxRepos == 3
\* upstream calls that raise within one build()
MaxFailures == 2
\* branches of a RepoView whose attention is read
MaxBranches == 2
\* largest ahead, behind and codespace count of a RepoView whose attention
\* is read
MaxCount == 1
\* contributor records on the stats page get_commit_count reads
MaxContributors == 2
\* pages of the upstream listing _get_paginated follows
MaxPages == 3
\* app records in the body FlyClient.list_apps decodes
MaxApps == 2

\* ------------------------------------------------------------------ values

\* Python's None (an absent optional value)
None == "<None>"
\* a key that is absent from an upstream dict
Missing == "<missing>"

Truthy(s) == s \notin {None, ""}

\* the names of the configured orgs, by position in github_orgs
OrgNames == <<"orgA", "orgB">>
\* the slugs of the configured fleet orgs, by position in fly_orgs
FlySlugs == <<"fly1", "fly2">>

Range(s) == {s[i] : i \in 1..Len(s)}

\* sequences over S of length at most n
SeqsUpTo(S, n) == UNION {[1..k -> S] : k \in 0..n}

\* sequences over S of length at most n without repeated elements
DistinctSeqs(S, n) ==
    {s \in SeqsUpTo(S, n) : \A i, j \in 1..Len(s) : i # j => s[i] # s[j]}

\* ---------------------------------------------------- configuration model

RepoConfig(name, category, tags, fly_app) ==
    [name |-> name, category |-> category, tags |-> tags, fly_app |-> fly_app]

OrgConfig(name, include_all, repos) ==
    [name |-> name, include_all |-> include_all, repos |-> repos]

\* one override, binding r1 to a Fly app
OneOverride == <<RepoConfig("r1", "Frontend", <<"prod">>, "appX")>>

\* two overrides: r2 bound to an app no fleet org has, r1 without a binding
TwoOverrides ==
    << RepoConfig("r2", "Backend", <<>>, "appY"),
       RepoConfig("r1", "Frontend", <<"prod">>, None) >>

\* the configurations of the org at position i
OrgConfigs(i) ==
    { OrgConfig(OrgNames[i], TRUE, OneOverride),
      OrgConfig(OrgNames[i], FALSE, OneOverride),
      OrgConfig(OrgNames[i], FALSE, TwoOverrides) }

\* github_orgs: one org, or one org per name of OrgNames
GithubOrgLists ==
    UNION { {s \in [1..n -> UNION {OrgConfigs(i) : i \in 1..n}] :
                \A i \in 1..n : s[i] \in OrgConfigs(i)} : n \in 1..Len(OrgNames) }

\* ------------------------------------------------------- upstream answers

\* an awaited upstream call answers with records (ok) or raises (exc)
Ok(v) == [ok |-> TRUE, val |-> v, exc |-> ""]
Raised(v0) == [ok |-> FALSE, val |-> v0, exc |-> "timeout"]
NotCalled(v0) == [ok |-> FALSE, val |-> v0, exc |-> "<not called>"]

Answers(values, v0) == {Ok(v) : v \in values} \cup {Raised(v0)}

\* repo records of list_org_repos; default_branch may be absent
RepoRecords ==
    { [name |-> "r1", default_branch |-> Missing],
      [name |-> "r2", default_branch |-> "dev"] }

RepoListings == DistinctSeqs(RepoRecords, Cardinality(RepoRecords))

\* the comparison compare_branches has when it raised
NoComparison == [ahead_by |-> 0, behind_by |-> 0]

\* the hosts of the failure runs: every call of both hosts answers or raises
FailingHosts ==
    [ list_org_repos |-> Answers(RepoListings, <<>>),
      list_branches |-> Answers({<<[name |-> "main"], [name |-> "dev"]>>}, <<>>),
      compare_branches |-> Answers({[ahead_by |-> 1, behind_by |-> 2]}, NoComparison),
      list_codespaces |->
          Answers({<<[name |-> "cs1", state |-> "Available", owner |-> "user1"]>>}, <<>>),
      list_apps |-> Answers({<<[name |-> "appX", status |-> "deployed"]>>}, <<>>),
      list_machines |-> Answers({<<[id |-> "m1", state |-> "started"]>>}, <<>>) ]

\* the hosts of the orchestration runs: the fleet host always answers, every
\* call of the repository host answers or raises
Hosts ==
    [ FailingHosts EXCEPT
        !.list_apps = {Ok(<<[name |-> "appX", status |-> "deployed"]>>)},
        !.list_machines = {Ok(<<[id |-> "m1", state |-> "started"]>>)} ]

\* the hosts of the enrichment runs: the fleet host and the org listing
\* always answer, the per-repo calls answer in several ways or raise
EnrichHosts ==
    [ list_org_repos |->
          { Ok(<<[name |-> "r1", default_branch |-> Missing]>>),
            Ok(<<[name |-> "r2", default_branch |-> "dev"],
                 [name |-> "r1", default_branch |-> Missing]>>) },
      list_branches |->
          Answers({ <<>>,
                    <<[name |-> "feat"]>>,
                    <<[name |-> "feat"], [name |-> "main"], [name |-> "dev"]>> }, <<>>),
      compare_branches |->
          Answers({ [ahead_by |-> 1, behind_by |-> 0],
                    [ahead_by |-> 0, behind_by |-> 2] }, NoComparison),
      list_codespaces |->
          Answers({ <<>>,
                    <<[name |-> "cs1", state |-> "Available", owner |-> "user1"]>> }, <<>>),
      list_apps |-> {Ok(<<[name |-> "appX", status |-> "deployed"]>>)},
      list_machines |-> {Ok(<<[id |-> "m1", state |-> "started"]>>)} ]

\* the hosts of the fleet runs: the repository host always answers, list_apps
\* answers with one app or with three (one of them without a name) or raises,
\* list_machines answers or raises
FleetHosts ==
    [ list_org_repos |-> {Ok(<<[name |-> "r1", default_branch |-> Missing]>>)},
      list_branches |-> {Ok(<<[name |-> "main"], [name |-> "feat"]>>)},
      compare_branches |-> {Ok([ahead_by |-> 1, behind_by |-> 0])},
      list_codespaces |-> {Ok(<<>>)},
      list_apps |->
          Answers({ <<[name |-> "appX", status |-> "deployed"]>>,
                    <<[name |-> "appX", status |-> "deployed"],
                      [name |-> "", status |-> "deployed"],
                      [name |-> "appZ", status |-> "suspended"]>> }, <<>>),
      list_machines |-> Answers({<<[id |-> "m1", state |-> "started"]>>}, <<>>) ]

\* the hosts of the malformed-record runs: the repository host answers with
\* well-formed records, with a repo record or a branch record that has no
\* name, or raises; the fleet host always answers
MalformedHosts ==
    [ list_org_repos |->
          Answers({ <<[name |-> "r1", default_branch |-> Missing]>>,
                    <<[name |-> Missing, default_branch |-> Missing],
                      [name |-> "r1", default_branch |-> Missing]>> }, <<>>),
      list_branches |->
          Answers({ <<[name |-> "main"]>>,
                    <<[name |-> "feat"], [name |-> Missing]>> }, <<>>),
      compare_branches |-> Answers({[ahead_by |-> 1, behind_by |-> 0]}, NoComparison),
      list_codespaces |->
          Answers({<<[name |-> "cs1", state |-> "Available", owner |-> "user1"]>>}, <<>>),
      list_apps |-> {Ok(<<[name |-> "appX", status |-> "deployed"]>>)},
      list_machines |-> {Ok(<<[id |-> "m1", state |-> "started"]>>)} ]

\* the hosts of the interleaved runs: list_apps, list_org_repos and
\* list_branches answer or raise, list_org_repos with one repo or another
ConcurrentHosts ==
    [ list_org_repos |->
          Answers({ <<[name |-> "r1", default_branch |-> Missing]>>,
                    <<[name |-> "r2", default_branch |-> "dev"]>> }, <<>>),
      list_branches |-> Answers({<<[name |-> "main"], [name |-> "feat"]>>}, <<>>),
      compare_branches |-> {Ok([ahead_by |-> 1, behind_by |-> 0])},
      list_codespaces |-> {Ok(<<>>)},
      list_apps |-> Answers({<<[name |-> "appX", status |-> "deployed"]>>}, <<>>),
      list_machines |-> {Ok(<<[id |-> "m1", state |-> "started"]>>)} ]

\* ------------------------------------------------------------------ state

VARIABLES
    upstream,    \* the name of the universe of answers the two hosts draw from
    config,      \* Aggregator._config: [github_orgs, fly_orgs]
    fly,         \* Aggregator._fly is not None
    pc,          \* where build() is suspended
    errors,      \* build(): errors
    repo_views,  \* build(): repo_views
    fly_lookup,  \* build(): fly_lookup, app name -> FlyAppInfo
    org_i,       \* index of the org build()'s loop is at
    tasks,       \* the _enrich_repo coroutines of the current org, input order
    completed,   \* indices of tasks in the order they completed
    listing,     \* answers list_org_repos gave so far, one per org processed
    enriched,    \* the finished tasks of each org processed
    failures,    \* upstream calls that raised so far
    fly_i,       \* index of the fleet org _build_fly_lookup's loop is at
    apps,        \* _build_fly_lookup: apps, the answer being iterated
    app_i,       \* index in apps of the app whose machines are awaited
    fleet_calls, \* the fleet-host calls made so far, with their answers
    orphans,     \* _fetch_codespaces coroutines whose _enrich_repo already raised
    attention,   \* RepoView.attention as read from the view under display
    all_clear,   \* AttentionSignals.all_clear as read from attention
    http,        \* a client call in progress: its request, the replies, its locals
    web,         \* a request to the web application on its way through a route
    other        \* the locals of a second build() suspended at an await

vars == <<upstream, config, fly, pc, errors, repo_views, fly_lookup, org_i, tasks,
          completed, listing, enriched, failures, fly_i, apps, app_i,
          fleet_calls, orphans, attention, all_clear, http, web, other>>

\* the hosts of the signed-count runs: compare_branches answers with counts
\* of either sign (the client hands the decoded body on, whatever it holds)
SignedHosts ==
    [ list_org_repos |-> { Ok(<<[name |-> "r1", default_branch |-> Missing]>>) },
      list_branches |->
          { Ok(<<[name |-> "feat"]>>),
            Ok(<<[name |-> "main"], [name |-> "feat"], [name |-> "fix"]>>) },
      compare_branches |->
          Answers({ [ahead_by |-> a, behind_by |-> b] :
                        a \in {0 - MaxCount, 0, MaxCount}, b \in {0 - MaxCount, 0} },
                  NoComparison),
      list_codespaces |-> { Ok(<<>>) },
      list_apps |-> {Ok(<<[name |-> "appX", status |-> "deployed"]>>)},
      list_machines |-> {Ok(<<[id |-> "m1", state |-> "started"]>>)} ]

\* the hosts of the namesake runs: the fleet lists apps that carry the names
\* of repos, the repository host lists r1 alone or r2 and r1
NamesakeHosts ==
    [ list_org_repos |->
          { Ok(<<[name |-> "r1", default_branch |-> Missing]>>),
            Ok(<<[name |-> "r2", default_branch |-> "dev"],
                 [name |-> "r1", default_branch |-> Missing]>>) },
      list_branches |-> {Ok(<<[name |-> "main"], [name |-> "dev"]>>)},
      compare_branches |-> {Ok([ahead_by |-> 1, behind_by |-> 0])},
      list_codespaces |-> {Ok(<<>>)},
      list_apps |->
          Answers({ <<[name |-> "appX", status |-> "deployed"],
                      [name |-> "r2", status |-> "deployed"]>>,
                    <<[name |-> "r1", status |-> "deployed"]>> }, <<>>),
      list_machines |-> {Ok(<<[id |-> "m1", state |-> "started"]>>)} ]

\* the universes of answers, by name
HostsNamed(name) ==
    CASE name = "Hosts" -> Hosts
      [] name = "FailingHosts" -> FailingHosts
      [] name = "EnrichHosts" -> EnrichHosts
      [] name = "FleetHosts" -> FleetHosts
      [] name = "MalformedHosts" -> MalformedHosts
      [] name = "ConcurrentHosts" -> ConcurrentHosts
      [] name = "SignedHosts" -> SignedHosts
      [] name = "NamesakeHosts" -> NamesakeHosts

HostsName(hosts) ==
    CHOOSE name \in {"Hosts", "FailingHosts", "EnrichHosts", "FleetHosts",
                     "MalformedHosts", "ConcurrentHosts", "SignedHosts",
                     "NamesakeHosts"} :
        HostsNamed(name) = hosts

\* the answers each call of the two hosts can give in this run
Upstream == HostsNamed(upstream)

\* a component that takes no part in the run under study
Idle == [pc |-> "idle"]

\* ------------------------------------------------------------ view models

\* models.py BranchInfo
BranchInfo(name, is_default, ahead, behind) ==
    [name |-> name, is_default |-> is_default, ahead |-> ahead, behind |-> behind]

\* models.py CodespaceInfo, built from an upstream codespace record
CodespaceInfo(cs) == [name |-> cs.name, state |-> cs.state, owner |-> cs.owner]

\* an error string: the text before the identifier, the identifier, the
\* upstream exception's message
ErrorString(what, ident, exc) == [what |-> what, ident |-> ident, exc |-> exc]

\* errors.append: the strings an await produced go to the end of the list
Appended(errs, strings) == errs \o strings

\* ------------------------------------------------------ attention signals

\* a comparison that takes the upstream spelling as it is
LowerKeepsCase(s) == s

\* str.lower() on the statuses and machine states the fleet host spells and
\* on the account names the repository host knows
Lower(s) ==
    CASE s = "Suspended" -> "suspended"
      [] s = "STOPPED" -> "stopped"
      [] s = "Alice" -> "alice"
      [] s = "ALICE" -> "alice"
      [] OTHER -> s

\* models.py _FLY_PROBLEM_STATES
FLY_PROBLEM_STATES == {"suspended", "failed", "stopped", "dead"}

\* a non_default that keeps every branch
NonDefaultBranchesAll(branches) == branches

\* non_default = [b for b in self.repo.branches if not b.is_default]
NonDefaultBranches(branches) == SelectSeq(branches, LAMBDA b : ~b.is_default)

\* fly_has_issues as RepoView.attention computes it; fly_app is the set
\* holding the attached app, {} for None
FlyHasIssues(fly_app) ==
    IF fly_app = {} THEN FALSE
    ELSE LET app == CHOOSE a \in fly_app : TRUE
         IN  IF Lower(app.status) \in FLY_PROBLEM_STATES THEN TRUE
             ELSE \E m \in 1..Len(app.machines) :
                      Lower(app.machines[m].state) \in FLY_PROBLEM_STATES

\* RepoView.attention
Attention(view) ==
    LET non_default == NonDefaultBranches(view.repo.branches)
    IN  [ branches_ahead_count |-> Len(SelectSeq(non_default, LAMBDA b : b.ahead > 0)),
          branches_behind_count |-> Len(SelectSeq(non_default, LAMBDA b : b.behind > 0)),
          active_codespace_count |-> view.repo.codespace_count,
          fly_has_issues |-> FlyHasIssues(view.fly_app) ]

\* an all_clear that looks at the three counts only
AllClearCountsOnly(signals) ==
    /\ signals.branches_ahead_count = 0
    /\ signals.branches_behind_count = 0
    /\ signals.active_codespace_count = 0

\* AttentionSignals.all_clear
AllClear(signals) ==
    /\ signals.branches_ahead_count = 0
    /\ signals.branches_behind_count = 0
    /\ signals.active_codespace_count = 0
    /\ ~signals.fly_has_issues

\* -------------------------------------------------- _fetch_org_repos, pure

RECURSIVE OverridesFrom(_, _)
\* repo_overrides = {r.name: r for r in org_config.repos}: the pairs in
\* insertion order, a later override of a name replacing the earlier one
OverridesFrom(repos, i) ==
    IF i = 0 THEN [n \in {} |-> <<>>]
    ELSE LET before == OverridesFrom(repos, i - 1)
         IN  [n \in DOMAIN before \cup {repos[i].name} |->
                 IF n = repos[i].name THEN repos[i] ELSE before[n]]

\* a repo_overrides that maps every override's name to the first override
RepoOverridesFirst(org_config) ==
    [n \in {org_config.repos[k].name : k \in 1..Len(org_config.repos)} |->
        org_config.repos[1]]

RepoOverrides(org_config) == OverridesFrom(org_config.repos, Len(org_config.repos))

\* a working set that ignores the inclusion policy
ReposToProcessAll(org_config, all_repos) == all_repos

\* a working set made of the configured overrides, listed upstream or not
ReposToProcessConfigured(org_config, all_repos) ==
    IF org_config.include_all
    THEN all_repos
    ELSE [k \in 1..Len(org_config.repos) |->
             [name |-> org_config.repos[k].name, default_branch |-> Missing]]

\* the working set: every repo listed, or those a configured override names
ReposToProcess(org_config, all_repos) ==
    IF org_config.include_all
    THEN all_repos
    ELSE LET listed_names == {r.name : r \in Range(org_config.repos)}
         IN  SelectSeq(all_repos, LAMBDA r : r.name \in listed_names)

\* repo_data.get("default_branch", "main")
DefaultBranch(repo_data) ==
    IF repo_data.default_branch = Missing THEN "main" ELSE repo_data.default_branch

\* a coroutine _enrich_repo as asyncio.gather starts it: both fetches
\* pending, or, for a record without a name, repo_data["name"] has raised
\* before either fetch was created
NewTask(repo_data) ==
    [ repo_data |-> repo_data,
      br_pc |-> IF repo_data.name = Missing THEN "raised" ELSE "list_branches",
      raw_branches |-> NotCalled(<<>>),
      b_i |-> 1,
      branches |-> <<>>,
      compared |-> <<>>,
      cs_pc |-> IF repo_data.name = Missing THEN "unstarted" ELSE "list_codespaces",
      raw_codespaces |-> NotCalled(<<>>),
      codespaces |-> <<>> ]

\* an inner gather that returns as soon as the branches are there
TaskDoneAtBranches(t) == t.br_pc \in {"raised", "done"}

\* the _enrich_repo task is done: its inner gather returned both lists, or
\* handed on the exception of _fetch_branches at once
TaskDone(t) == t.br_pc = "raised" \/ (t.br_pc = "done" /\ t.cs_pc = "done")

\* str(KeyError("name")): the message of the exception a task raised with
TaskException(t) == IF t.br_pc = "raised" THEN "'name'" ELSE ""

\* ---------------------------------------------------- _fetch_branches, pure

\* a default-branch test against the literal "main"
IsDefaultMain(name, default_branch) == name = "main"

\* is_default = name == default_branch
IsDefault(name, default_branch) == name = default_branch

RECURSIVE BranchLoop(_, _, _, _)
\* the loop over raw_branches from index i up to its next await: a default
\* branch is appended with zero counts, a non-default one awaits its compare,
\* and b["name"] raises for a record without a name
BranchLoop(raw, default_branch, i, branches) ==
    IF i > Len(raw)
    THEN [br_pc |-> "done", b_i |-> i, branches |-> branches]
    ELSE IF raw[i].name = Missing
    THEN [br_pc |-> "raised", b_i |-> i, branches |-> branches]
    ELSE LET is_default == IsDefault(raw[i].name, default_branch)
         IN  IF is_default
             THEN BranchLoop(raw, default_branch, i + 1,
                      Append(branches, BranchInfo(raw[i].name, is_default, 0, 0)))
             ELSE [br_pc |-> "compare_branches", b_i |-> i, branches |-> branches]

\* the BranchInfo of a branch whose compare answered or raised
ComparedBranch(name, is_default, answer) ==
    IF answer.ok
    THEN BranchInfo(name, is_default, answer.val.ahead_by, answer.val.behind_by)
    ELSE BranchInfo(name, is_default, 0, 0)

\* a _fetch_branches without its try, under gathers that hand no exception
\* on: a raising list_branches leaves the task without a result
BranchesListedUncaught(t, answer) ==
    IF answer.ok
    THEN LET loop == BranchLoop(answer.val, DefaultBranch(t.repo_data), 1, <<>>)
         IN  [t EXCEPT !.raw_branches = answer, !.br_pc = loop.br_pc,
                       !.b_i = loop.b_i, !.branches = loop.branches]
    ELSE [t EXCEPT !.raw_branches = answer, !.br_pc = "escaped"]

\* a _fetch_branches that calls list_branches again when its first call raised
BranchesListedRetrying(t, answer) ==
    IF answer.ok
    THEN LET loop == BranchLoop(answer.val, DefaultBranch(t.repo_data), 1, <<>>)
         IN  [t EXCEPT !.raw_branches = answer, !.br_pc = loop.br_pc,
                       !.b_i = loop.b_i, !.branches = loop.branches]
    ELSE IF t.raw_branches = NotCalled(<<>>)
         THEN [t EXCEPT !.raw_branches = answer]
         ELSE [t EXCEPT !.raw_branches = answer, !.br_pc = "done"]

\* _fetch_branches resumed by the answer of list_branches
BranchesListed(t, answer) ==
    IF answer.ok
    THEN LET loop == BranchLoop(answer.val, DefaultBranch(t.repo_data), 1, <<>>)
         IN  [t EXCEPT !.raw_branches = answer, !.br_pc = loop.br_pc,
                       !.b_i = loop.b_i, !.branches = loop.branches]
    ELSE [t EXCEPT !.raw_branches = answer, !.br_pc = "done"]

\* a _fetch_branches that swallows the failure of list_branches
BranchesErrorSilent(org, repo, answer) == <<>>

\* the error string _fetch_branches appends when list_branches raised
BranchesError(org, repo, answer) ==
    IF answer.ok THEN <<>>
    ELSE <<ErrorString("Branches for", <<org, repo>>, answer.exc)>>

\* a _fetch_branches that records the failure of compare_branches
CompareErrorRecorded(org, repo, answer) ==
    IF answer.ok THEN <<>>
    ELSE <<ErrorString("Compare for", <<org, repo>>, answer.exc)>>

\* except Exception: pass -- a raising compare_branches appends no error string
CompareError(org, repo, answer) == <<>>

\* a _fetch_branches whose loop ends at the first compare_branches that raises
BranchComparedAborting(t, answer) ==
    LET raw == t.raw_branches.val
        default_branch == DefaultBranch(t.repo_data)
        name == raw[t.b_i].name
        entry == ComparedBranch(name, IsDefault(name, default_branch), answer)
        loop == BranchLoop(raw, default_branch, t.b_i + 1, Append(t.branches, entry))
        log == Append(t.compared,
                      [base |-> default_branch, head |-> name, answer |-> answer])
    IN  IF answer.ok
        THEN [t EXCEPT !.br_pc = loop.br_pc, !.b_i = loop.b_i,
                       !.branches = loop.branches, !.compared = log]
        ELSE [t EXCEPT !.br_pc = "done", !.branches = Append(t.branches, entry),
                       !.compared = log]

\* _fetch_branches resumed by the answer of compare_branches for branch b_i
BranchCompared(t, answer) ==
    LET raw == t.raw_branches.val
        default_branch == DefaultBranch(t.repo_data)
        name == raw[t.b_i].name
        entry == ComparedBranch(name, IsDefault(name, default_branch), answer)
        loop == BranchLoop(raw, default_branch, t.b_i + 1, Append(t.branches, entry))
    IN  [t EXCEPT !.br_pc = loop.br_pc, !.b_i = loop.b_i,
                  !.branches = loop.branches,
                  !.compared = Append(t.compared,
                                      [base |-> default_branch, head |-> name,
                                       answer |-> answer])]

\* -------------------------------------------------- _fetch_codespaces, pure

\* an enrichment in which a failing list_codespaces also discards the
\* branches fetched so far
CodespacesListedDropsBranches(t, answer) ==
    IF answer.ok
    THEN [t EXCEPT !.raw_codespaces = answer, !.cs_pc = "done",
                   !.codespaces = [k \in 1..Len(answer.val) |->
                                      CodespaceInfo(answer.val[k])]]
    ELSE [t EXCEPT !.raw_codespaces = answer, !.cs_pc = "done",
                   !.codespaces = <<>>, !.branches = <<>>]

\* _fetch_codespaces resumed by the answer of list_codespaces
CodespacesListed(t, answer) ==
    [t EXCEPT !.raw_codespaces = answer, !.cs_pc = "done",
              !.codespaces = IF answer.ok
                             THEN [k \in 1..Len(answer.val) |-> CodespaceInfo(answer.val[k])]
                             ELSE <<>>]

\* the error string _fetch_codespaces appends when list_codespaces raised
CodespacesError(org, repo, answer) ==
    IF answer.ok THEN <<>>
    ELSE <<ErrorString("Codespaces for", <<org, repo>>, answer.exc)>>

\* ------------------------------------------------------ _enrich_repo, pure

\* a RepoData built without its codespace_count, left at the default
CodespaceCountDefault(codespaces) == 0

\* codespace_count=len(codespaces)
CodespaceCount(codespaces) == Len(codespaces)

\* RepoView(repo=RepoData(...)) of a task whose two fetches returned
EnrichRepo(org, t, overrides) ==
    LET repo_name == t.repo_data.name
        has_override == repo_name \in DOMAIN overrides
    IN  [ repo |->
            [ org |-> org,
              name |-> repo_name,
              default_branch |-> DefaultBranch(t.repo_data),
              category |-> IF has_override THEN overrides[repo_name].category
                           ELSE "Uncategorized",
              tags |-> IF has_override THEN overrides[repo_name].tags ELSE <<>>,
              branches |-> t.branches,
              codespaces |-> t.codespaces,
              codespace_count |-> CodespaceCount(t.codespaces) ],
          fly_app |-> {} ]

\* the result of a task under return_exceptions=True: the exception it
\* raised with (exc) or the RepoView it returned (view)
TaskResult(org, t, overrides) ==
    [exc |-> TaskException(t), view |-> EnrichRepo(org, t, overrides)]

\* a gather that hands back the results in the order the tasks completed
GatherCompletionOrder(org, ts, done_order, overrides) ==
    [k \in 1..Len(ts) |-> TaskResult(org, ts[done_order[k]], overrides)]

\* results = await asyncio.gather(*tasks, return_exceptions=True): one result
\* per task, in the order the tasks were passed, whatever the order they
\* completed in
GatherResults(org, ts, done_order, overrides) ==
    [i \in 1..Len(ts) |-> TaskResult(org, ts[i], overrides)]

\* a loop over results that ends at the first exception
ViewsUntilRaised(results) ==
    LET raised == {k \in 1..Len(results) : results[k].exc # ""}
        stop == IF raised = {} THEN Len(results)
                ELSE (CHOOSE k \in raised : \A j \in raised : k <= j) - 1
    IN  [k \in 1..stop |-> results[k].view]

\* the loop over results: the views, in result order
Views(results) ==
    LET returned == SelectSeq(results, LAMBDA r : r.exc = "")
    IN  [k \in 1..Len(returned) |-> returned[k].view]

\* the loop over results: one error string per exception, in result order
EnrichErrors(results) ==
    LET raised == SelectSeq(results, LAMBDA r : r.exc # "")
    IN  [k \in 1..Len(raised) |-> ErrorString("Enriching repo", <<>>, raised[k].exc)]

\* the _fetch_codespaces coroutines still awaiting list_codespaces when their
\* _enrich_repo raised: the inner gather does not cancel them
Orphaned(org, ts) ==
    LET pending == SelectSeq(ts, LAMBDA t : t.br_pc = "raised" /\ t.cs_pc = "list_codespaces")
    IN  [k \in 1..Len(pending) |-> <<org, pending[k].repo_data.name>>]

\* ------------------------------------------------------------- build, pure

RECURSIVE FlyAppNameFrom(_, _, _)
FlyAppNameFrom(repos, repo_name, i) ==
    IF i > Len(repos) THEN None
    ELSE IF repos[i].name = repo_name THEN repos[i].fly_app
         ELSE FlyAppNameFrom(repos, repo_name, i + 1)

\* a lookup that takes the first override's binding whatever its name
GetFlyAppNameAny(org_config, repo_name) ==
    IF org_config.repos = <<>> THEN None ELSE org_config.repos[1].fly_app

\* a lookup that falls back on the repo's own name when no override binds it
GetFlyAppNameOrRepo(org_config, repo_name) ==
    LET bound == FlyAppNameFrom(org_config.repos, repo_name, 1)
    IN  IF Truthy(bound) THEN bound ELSE repo_name

\* _get_fly_app_name: the fly_app of the first override with the repo's name
GetFlyAppName(org_config, repo_name) == FlyAppNameFrom(org_config.repos, repo_name, 1)

\* build()'s loop body: attach the mapped Fly app when the lookup has it
AttachFlyApp(org_config, repo_view, lookup) ==
    LET fly_app_name == GetFlyAppName(org_config, repo_view.repo.name)
    IN  IF Truthy(fly_app_name) /\ fly_app_name \in DOMAIN lookup
        THEN [repo_view EXCEPT !.fly_app = {lookup[fly_app_name]}]
        ELSE repo_view

\* ----------------------------------------------------- _build_fly_lookup

\* models.py FlyMachine
FlyMachine(m) == [id |-> m.id, state |-> m.state]

\* models.py FlyAppInfo
FlyAppInfo(app_data, org_slug, machines) ==
    [name |-> app_data.name, org_slug |-> org_slug,
     status |-> app_data.status, machines |-> machines]

RECURSIVE NextNamedApp(_, _)
\* the loop over apps from index i: an app without a name is skipped
NextNamedApp(as, i) ==
    IF i > Len(as) THEN i
    ELSE IF Truthy(as[i].name) THEN i ELSE NextNamedApp(as, i + 1)

\* a lookup that keeps the entry a name already has
IndexedKeepsFirst(lookup, info) ==
    IF info.name \in DOMAIN lookup
    THEN lookup
    ELSE [n \in DOMAIN lookup \cup {info.name} |->
             IF n = info.name THEN info ELSE lookup[n]]

\* lookup[app_name] = FlyAppInfo(...)
Indexed(lookup, info) ==
    [n \in DOMAIN lookup \cup {info.name} |->
        IF n = info.name THEN info ELSE lookup[n]]

\* where build() goes once _build_fly_lookup's loop is at fleet org i
AfterFlyOrg(i) ==
    IF i <= Len(config.fly_orgs) THEN "list_apps" ELSE "list_org_repos"

\* the loop over apps is at index i: await its machines, or take the next org
FlyStep(i) ==
    IF i <= Len(apps')
    THEN /\ pc' = "list_machines"
         /\ app_i' = i
         /\ fly_i' = fly_i
    ELSE /\ pc' = AfterFlyOrg(fly_i + 1)
         /\ app_i' = 1
         /\ fly_i' = fly_i + 1

\* the error string _build_fly_lookup appends when list_apps raised
FlyOrgError(slug, answer) ==
    IF answer.ok THEN <<>>
    ELSE <<ErrorString("Fly org", <<slug>>, answer.exc)>>

\* a _build_fly_lookup whose loop over the fleet orgs ends at the first
\* list_apps that raises
AppsListedAborting(answer) ==
    IF answer.ok
    THEN FlyStep(NextNamedApp(answer.val, 1))
    ELSE /\ pc' = "list_org_repos"
         /\ app_i' = 1
         /\ fly_i' = Len(config.fly_orgs) + 1

\* _build_fly_lookup resumed by the answer of list_apps: the loop over the
\* apps answered (none when the call raised), then the next fleet org
AppsListed(answer) == FlyStep(NextNamedApp(answer.val, 1))

\* list_apps answers for the fleet org at fly_i
ListApps ==
    /\ pc = "list_apps"
    /\ \E answer \in Upstream.list_apps :
        /\ answer.ok \/ failures < MaxFailures
        /\ failures' = IF answer.ok THEN failures ELSE failures + 1
        /\ fleet_calls' = Append(fleet_calls,
               [call |-> "list_apps", arg |-> config.fly_orgs[fly_i], ok |-> answer.ok,
                val |-> answer.val])
        /\ apps' = answer.val
        /\ errors' = Appended(errors, FlyOrgError(config.fly_orgs[fly_i], answer))
        /\ AppsListed(answer)
    /\ UNCHANGED <<http, web, other, orphans, attention, all_clear, upstream, config, fly, repo_views, fly_lookup, org_i, tasks, completed,
                   listing, enriched>>

\* the error string _build_fly_lookup appends when list_machines raised
FlyMachinesError(app_name, answer) ==
    IF answer.ok THEN <<>>
    ELSE <<ErrorString("Fly machines for", <<app_name>>, answer.exc)>>

\* machines: the FlyMachine list of the answer, [] when list_machines raised
MachinesOf(answer) ==
    IF answer.ok
    THEN [k \in 1..Len(answer.val) |-> FlyMachine(answer.val[k])]
    ELSE <<>>

\* a _build_fly_lookup that leaves out the app whose list_machines raised
MachinesListedSkipsApp(lookup, app_data, org_slug, answer) ==
    IF answer.ok
    THEN Indexed(lookup, FlyAppInfo(app_data, org_slug, MachinesOf(answer)))
    ELSE lookup

\* the lookup once list_machines answered or raised for app_data
MachinesListed(lookup, app_data, org_slug, answer) ==
    Indexed(lookup, FlyAppInfo(app_data, org_slug, MachinesOf(answer)))

\* list_machines answers for the app at app_i
ListMachines ==
    /\ pc = "list_machines"
    /\ \E answer \in Upstream.list_machines :
        /\ answer.ok \/ failures < MaxFailures
        /\ failures' = IF answer.ok THEN failures ELSE failures + 1
        /\ fleet_calls' = Append(fleet_calls,
               [call |-> "list_machines", arg |-> apps[app_i].name, ok |-> answer.ok,
                val |-> answer.val])
        /\ errors' = Appended(errors, FlyMachinesError(apps[app_i].name, answer))
        /\ fly_lookup' = MachinesListed(fly_lookup, apps[app_i], config.fly_orgs[fly_i],
                                        answer)
    /\ apps' = apps
    /\ FlyStep(NextNamedApp(apps, app_i + 1))
    /\ UNCHANGED <<http, web, other, orphans, attention, all_clear, upstream, config, fly, repo_views, org_i, tasks, completed, listing, enriched>>

\* ------------------------------------------- _fetch_org_repos and build()

Org == config.github_orgs[org_i]

RECURSIVE SumLen(_, _)
SumLen(answers, i) == IF i = 0 THEN 0 ELSE Len(answers[i].val) + SumLen(answers, i - 1)

\* repo records listed so far in this build()
Listed == SumLen(listing, Len(listing))

\* a loop over the orgs that goes back to the fleet host after each org
NextOrgFleetAgain ==
    /\ org_i' = org_i + 1
    /\ pc' = IF org_i + 1 > Len(config.github_orgs) THEN "done"
             ELSE IF fly THEN "list_apps" ELSE "list_org_repos"

\* build()'s loop takes the next org, or returns DashboardData
NextOrg ==
    /\ org_i' = org_i + 1
    /\ pc' = IF org_i + 1 > Len(config.github_orgs) THEN "done" ELSE "list_org_repos"

\* the error string _fetch_org_repos appends when list_org_repos raised
OrgError(org, answer) ==
    IF answer.ok THEN <<>>
    ELSE <<ErrorString("GitHub org", <<org>>, answer.exc)>>

\* a _fetch_org_repos whose failure ends build()'s loop over the orgs
OrgFetchedAborting(answer, repos_to_process) ==
    IF ~answer.ok
    THEN /\ tasks' = <<>>
         /\ enriched' = Append(enriched, [tasks |-> <<>>, completed |-> <<>>])
         /\ org_i' = org_i + 1
         /\ pc' = "done"
    ELSE IF repos_to_process = <<>>
         THEN /\ tasks' = <<>>
              /\ enriched' = Append(enriched, [tasks |-> <<>>, completed |-> <<>>])
              /\ NextOrg
         ELSE /\ tasks' = [i \in 1..Len(repos_to_process) |->
                              NewTask(repos_to_process[i])]
              /\ enriched' = enriched
              /\ pc' = "gather"
              /\ org_i' = org_i

\* _fetch_org_repos after the listing answered: it returns [] when the call
\* raised, and its gather has nothing to await when the working set is empty;
\* otherwise it starts one _enrich_repo per repo and awaits them all
OrgFetched(answer, repos_to_process) ==
    IF ~answer.ok \/ repos_to_process = <<>>
    THEN /\ tasks' = <<>>
         /\ enriched' = Append(enriched, [tasks |-> <<>>, completed |-> <<>>])
         /\ NextOrg
    ELSE /\ tasks' = [i \in 1..Len(repos_to_process) |-> NewTask(repos_to_process[i])]
         /\ enriched' = enriched
         /\ pc' = "gather"
         /\ org_i' = org_i

\* the tasks that are done as soon as the gather has started them, in task
\* order
StartedDone(ts) ==
    LET F[i \in 0..Len(ts)] ==
            IF i = 0 THEN <<>>
            ELSE IF TaskDone(ts[i]) THEN Append(F[i - 1], i) ELSE F[i - 1]
    IN  F[Len(ts)]

\* list_org_repos answers for the org at org_i
ListOrgRepos ==
    /\ pc = "list_org_repos"
    /\ \E answer \in Upstream.list_org_repos :
        /\ answer.ok \/ failures < MaxFailures
        /\ Len(answer.val) + Listed <= MaxRepos
        /\ failures' = IF answer.ok THEN failures ELSE failures + 1
        /\ listing' = Append(listing, answer)
        /\ errors' = Appended(errors, OrgError(Org.name, answer))
        /\ OrgFetched(answer, ReposToProcess(Org, answer.val))
    /\ completed' = StartedDone(tasks')
    /\ UNCHANGED <<http, web, other, orphans, attention, all_clear, upstream, config, fly, repo_views, fly_lookup, fly_i,
                   apps, app_i, fleet_calls>>

\* task i moved to t2: note its completion, once
Completion(i, t2) ==
    IF TaskDone(t2) /\ i \notin Range(completed) THEN Append(completed, i) ELSE completed

\* list_branches answers for the repo of task i
ListBranches(i) ==
    /\ pc = "gather"
    /\ tasks[i].br_pc = "list_branches"
    /\ \E answer \in Upstream.list_branches :
        /\ answer.ok \/ failures < MaxFailures
        /\ failures' = IF answer.ok THEN failures ELSE failures + 1
        /\ LET t2 == BranchesListed(tasks[i], answer)
           IN  /\ tasks' = [tasks EXCEPT ![i] = t2]
               /\ completed' = Completion(i, t2)
        /\ errors' = Appended(errors, BranchesError(Org.name, tasks[i].repo_data.name, answer))
    /\ UNCHANGED <<http, web, other, orphans, attention, all_clear, upstream, config, fly, pc, repo_views, fly_lookup, org_i, listing, enriched,
                   fly_i, apps, app_i, fleet_calls>>

\* compare_branches answers for the branch task i is at
CompareBranches(i) ==
    /\ pc = "gather"
    /\ tasks[i].br_pc = "compare_branches"
    /\ \E answer \in Upstream.compare_branches :
        /\ answer.ok \/ failures < MaxFailures
        /\ failures' = IF answer.ok THEN failures ELSE failures + 1
        /\ LET t2 == BranchCompared(tasks[i], answer)
           IN  /\ tasks' = [tasks EXCEPT ![i] = t2]
               /\ completed' = Completion(i, t2)
        /\ errors' = Appended(errors, CompareError(Org.name, tasks[i].repo_data.name, answer))
    /\ UNCHANGED <<http, web, other, orphans, attention, all_clear, upstream, config, fly, pc, repo_views, fly_lookup, org_i, listing,
                   enriched, fly_i, apps, app_i, fleet_calls>>

\* list_codespaces answers for the repo of task i
ListCodespaces(i) ==
    /\ pc = "gather"
    /\ tasks[i].cs_pc = "list_codespaces"
    /\ \E answer \in Upstream.list_codespaces :
        /\ answer.ok \/ failures < MaxFailures
        /\ failures' = IF answer.ok THEN failures ELSE failures + 1
        /\ LET t2 == CodespacesListed(tasks[i], answer)
           IN  /\ tasks' = [tasks EXCEPT ![i] = t2]
               /\ completed' = Completion(i, t2)
        /\ errors' = Appended(errors, CodespacesError(Org.name, tasks[i].repo_data.name, answer))
    /\ UNCHANGED <<http, web, other, orphans, attention, all_clear, upstream, config, fly, pc, repo_views, fly_lookup, org_i, listing, enriched,
                   fly_i, apps, app_i, fleet_calls>>

\* every task of the org completed: _fetch_org_repos returns the views in
\* result order and build() attaches the Fly apps and appends them
GatherDone ==
    /\ pc = "gather"
    /\ \A i \in 1..Len(tasks) : TaskDone(tasks[i])
    /\ LET results == GatherResults(Org.name, tasks, completed, RepoOverrides(Org))
           views == [k \in 1..Len(Views(results)) |->
                        AttachFlyApp(Org, Views(results)[k], fly_lookup)]
       IN  /\ repo_views' = repo_views \o views
           /\ errors' = Appended(errors, EnrichErrors(results))
    /\ orphans' = orphans \o Orphaned(Org.name, tasks)
    /\ enriched' = Append(enriched, [tasks |-> tasks, completed |-> completed])
    /\ tasks' = <<>>
    /\ completed' = <<>>
    /\ NextOrg
    /\ UNCHANGED <<http, web, other, attention, all_clear, upstream, config, fly, fly_lookup, listing, failures, fly_i, apps,
                   app_i, fleet_calls>>

\* list_codespaces answers for an orphaned _fetch_codespaces: its error string
\* reaches the list build() returns only while build() has not returned
OrphanCodespaces ==
    /\ orphans # <<>>
    /\ \E k \in 1..Len(orphans) : \E answer \in Upstream.list_codespaces :
        /\ answer.ok \/ failures < MaxFailures
        /\ failures' = IF answer.ok THEN failures ELSE failures + 1
        /\ orphans' = [j \in 1..(Len(orphans) - 1) |->
                           IF j < k THEN orphans[j] ELSE orphans[j + 1]]
        /\ errors' = IF pc = "done" THEN errors
                     ELSE Appended(errors, CodespacesError(orphans[k][1], orphans[k][2],
                                                            answer))
    /\ UNCHANGED <<http, web, other, attention, all_clear, upstream, config, fly, pc, repo_views, fly_lookup,
                   org_i, tasks, completed, listing, enriched, fly_i, apps, app_i,
                   fleet_calls>>

\* ------------------------------------------------- reading the attention

\* view.attention is read from the view under display
ReadAttention ==
    /\ pc = "view"
    /\ attention' = <<Attention(repo_views[1])>>
    /\ pc' = "attention"
    /\ UNCHANGED <<upstream, config, fly, errors, repo_views, fly_lookup, org_i, tasks,
                   completed, listing, enriched, failures, fly_i, apps, app_i,
                   fleet_calls, orphans, all_clear, http, web, other>>

\* attention.all_clear is read from the signals
ReadAllClear ==
    /\ pc = "attention"
    /\ all_clear' = <<AllClear(attention[1])>>
    /\ pc' = "all_clear"
    /\ UNCHANGED <<upstream, config, fly, errors, repo_views, fly_lookup, org_i, tasks,
                   completed, listing, enriched, failures, fly_i, apps, app_i,
                   fleet_calls, orphans, attention, http, web, other>>

\* ---------------------------------------------------------- specification

Configs == [github_orgs : GithubOrgLists, fly_orgs : {<<FlySlugs[1]>>}]

\* a build() that builds the fleet lookup without looking at its client
BuildStartUnguarded ==
    IF config.fly_orgs # <<>> THEN "list_apps" ELSE "list_org_repos"

\* build() up to its first await: the fleet lookup is built only with a client
BuildStart ==
    IF fly /\ config.fly_orgs # <<>> THEN "list_apps" ELSE "list_org_repos"

InitWith(hosts, configs, clients) ==
    /\ upstream = HostsName(hosts)
    /\ config \in configs
    /\ fly \in clients
    /\ pc = BuildStart
    /\ errors = <<>>
    /\ repo_views = <<>>
    /\ fly_lookup = <<>>
    /\ org_i = 1
    /\ tasks = <<>>
    /\ completed = <<>>
    /\ listing = <<>>
    /\ enriched = <<>>
    /\ failures = 0
    /\ fly_i = 1
    /\ apps = <<>>
    /\ app_i = 1
    /\ fleet_calls = <<>>
    /\ orphans = <<>>
    /\ attention = <<>>
    /\ all_clear = <<>>
    /\ http = Idle
    /\ web = Idle
    /\ other = Idle

\* the orchestration runs: every configuration, with and without a fleet client
Init == InitWith(Hosts, Configs, BOOLEAN)

\* the enrichment runs: one org that includes every repo, with a fleet client
EnrichConfigs ==
    { [github_orgs |-> <<OrgConfig(OrgNames[1], TRUE, OneOverride)>>,
       fly_orgs |-> <<FlySlugs[1]>>] }

InitEnrich == InitWith(EnrichHosts, EnrichConfigs, {TRUE})

\* the failure runs: two orgs and two fleet orgs, with a fleet client
FailureConfigs ==
    { [github_orgs |-> << OrgConfig(OrgNames[1], TRUE, OneOverride),
                          OrgConfig(OrgNames[2], FALSE, TwoOverrides) >>,
       fly_orgs |-> FlySlugs] }

InitFailures == InitWith(FailingHosts, FailureConfigs, {TRUE})

\* the fleet runs: one org whose override binds r1 to appX, two fleet orgs
FleetConfigs ==
    { [github_orgs |-> <<OrgConfig(OrgNames[1], TRUE, OneOverride)>>,
       fly_orgs |-> FlySlugs] }

InitFleet == InitWith(FleetHosts, FleetConfigs, {TRUE})

\* the malformed-record runs: an org that includes every repo, then an org
\* that keeps the repos its override names
MalformedConfigs ==
    { [github_orgs |-> << OrgConfig(OrgNames[1], TRUE, OneOverride),
                          OrgConfig(OrgNames[2], FALSE, OneOverride) >>,
       fly_orgs |-> <<FlySlugs[1]>>] }

InitMalformed == InitWith(MalformedHosts, MalformedConfigs, {TRUE})

\* the branches of the views whose attention is read: any marking and counts
AttentionBranches ==
    { BranchInfo("b", d, a, b) : d \in BOOLEAN, a \in 0..MaxCount, b \in 0..MaxCount }

\* the fleet apps of the views whose attention is read, {} for None
AttentionFlyApps ==
    {{}} \cup
    { {FlyAppInfo([name |-> "appX", status |-> st], FlySlugs[1], ms)} :
        st \in {"deployed", "Suspended", "dead"},
        ms \in { <<>>,
                 <<FlyMachine([id |-> "m1", state |-> "started"])>>,
                 <<FlyMachine([id |-> "m1", state |-> "started"]),
                   FlyMachine([id |-> "m2", state |-> "STOPPED"])>> } }

\* the views whose attention is read, as test_models.py _make_view builds them
AttentionViews ==
    { [ repo |-> [ org |-> "o", name |-> "r", default_branch |-> "main",
                   category |-> "Uncategorized", tags |-> <<>>,
                   branches |-> bs, codespaces |-> <<>>, codespace_count |-> n ],
        fly_app |-> app ] :
        bs \in SeqsUpTo(AttentionBranches, MaxBranches),
        n \in {0, MaxCount},
        app \in AttentionFlyApps }

\* the attention runs: a view is built, then its attention and all_clear read
InitAttention ==
    /\ upstream = HostsName(Hosts)
    /\ config = [github_orgs |-> <<>>, fly_orgs |-> <<>>]
    /\ fly = FALSE
    /\ pc = "view"
    /\ errors = <<>>
    /\ repo_views \in {<<v>> : v \in AttentionViews}
    /\ fly_lookup = <<>>
    /\ org_i = 1
    /\ tasks = <<>>
    /\ completed = <<>>
    /\ listing = <<>>
    /\ enriched = <<>>
    /\ failures = 0
    /\ fly_i = 1
    /\ apps = <<>>
    /\ app_i = 1
    /\ fleet_calls = <<>>
    /\ orphans = <<>>
    /\ attention = <<>>
    /\ all_clear = <<>>
    /\ http = Idle
    /\ web = Idle
    /\ other = Idle

NextAttention ==
    \/ ReadAttention
    \/ ReadAllClear

Next ==
    \/ ListApps
    \/ ListMachines
    \/ ListOrgRepos
    \/ \E i \in 1..Len(tasks) : ListBranches(i)
    \/ \E i \in 1..Len(tasks) : CompareBranches(i)
    \/ \E i \in 1..Len(tasks) : ListCodespaces(i)
    \/ GatherDone

Spec == Init /\ [][Next]_vars

SpecEnrich == InitEnrich /\ [][Next]_vars

SpecFailures == InitFailures /\ [][Next]_vars

SpecFleet == InitFleet /\ [][Next]_vars

SpecAttention == InitAttention /\ [][NextAttention]_vars

\* build() with the coroutines an enrichment that raised leaves running
NextMalformed ==
    \/ Next
    \/ OrphanCodespaces

SpecMalformed == InitMalformed /\ [][NextMalformed]_vars

\* ------------------------------------------------ the build() at rest

\* the variables of build() and of the attention reads
build_vars == <<upstream, config, fly, pc, errors, repo_views, fly_lookup, org_i,
                tasks, completed, listing, enriched, failures, fly_i, apps, app_i,
                fleet_calls, orphans, attention, all_clear>>

\* no build() is running: the client calls and the routes are studied alone
BuildIdle ==
    /\ upstream = HostsName(Hosts)
    /\ config = [github_orgs |-> <<>>, fly_orgs |-> <<>>]
    /\ fly = FALSE
    /\ pc = "idle"
    /\ errors = <<>>
    /\ repo_views = <<>>
    /\ fly_lookup = <<>>
    /\ org_i = 1
    /\ tasks = <<>>
    /\ completed = <<>>
    /\ listing = <<>>
    /\ enriched = <<>>
    /\ failures = 0
    /\ fly_i = 1
    /\ apps = <<>>
    /\ app_i = 1
    /\ fleet_calls = <<>>
    /\ orphans = <<>>
    /\ attention = <<>>
    /\ all_clear = <<>>

\* ------------------------------------------- GitHubClient.get_commit_count

\* what self._http.get() can bring back: a transport error, or a response
\* with a status and a body that is a JSON list, a JSON object or no JSON
Reply(error, status, shape, items) ==
    [error |-> error, status |-> status, shape |-> shape, items |-> items]

\* the contributor records of a stats page; the third has no "contributions"
Contributors ==
    { [login |-> "a", contributions |-> 1],
      [login |-> "b", contributions |-> 2],
      [login |-> "c"] }

CommitCountReplies ==
    { Reply(TRUE, 0, "none", <<>>),
      Reply(FALSE, 202, "object", <<>>),
      Reply(FALSE, 404, "object", <<>>),
      Reply(FALSE, 500, "invalid", <<>>),
      Reply(FALSE, 200, "invalid", <<>>),
      Reply(FALSE, 200, "object", <<>>) } \cup
    { Reply(FALSE, 200, "list", cs) : cs \in SeqsUpTo(Contributors, MaxContributors) }

\* resp.raise_for_status() lets the 2xx answers through
IsSuccess(status) == status \in 200..299

RECURSIVE SumContributions(_, _)
\* sum(c.get("contributions", 0) for c in resp.json()) over the first i records
SumContributions(items, i) ==
    IF i = 0 THEN 0
    ELSE (IF "contributions" \in DOMAIN items[i] THEN items[i].contributions ELSE 0)
         + SumContributions(items, i - 1)

\* the call leaves with a value
Returned(h, value) == [h EXCEPT !.pc = "returned", !.ret = value]

\* the try body raised: a mutation of RequestFailed that tries again
RequestFailedRetries(h) ==
    IF h.attempt = 0 THEN [h EXCEPT !.pc = "sleeping"] ELSE Returned(h, 0)

\* except Exception: return 0
RequestFailed(h) == Returned(h, 0)

\* the try body of one attempt, from the reply to its request
Attempted(h, reply) ==
    IF reply.error THEN RequestFailed(h)
    ELSE IF reply.status = 202
         THEN (IF h.attempt = 0 THEN [h EXCEPT !.pc = "sleeping"] ELSE Returned(h, 0))
    ELSE IF ~IsSuccess(reply.status) THEN RequestFailed(h)
    ELSE IF reply.shape # "list" THEN RequestFailed(h)
    ELSE Returned(h, SumContributions(reply.items, Len(reply.items)))

\* the call as it starts: the replies the upstream holds for its requests
CommitCountCall(replies) ==
    [call |-> "get_commit_count", pc |-> "attempt", attempt |-> 0, sent |-> 0,
     replies |-> replies, ret |-> 0]

\* await self._http.get(url, ...) is sent
CommitCountRequest ==
    /\ http.pc = "attempt"
    /\ http' = [http EXCEPT !.pc = "awaiting", !.sent = @ + 1]
    /\ UNCHANGED <<build_vars, web, other>>

\* the reply arrives and the rest of the try body runs
CommitCountReply ==
    /\ http.pc = "awaiting"
    /\ http' = Attempted(http, http.replies[http.sent])
    /\ UNCHANGED <<build_vars, web, other>>

\* await asyncio.sleep(1) is over; continue
CommitCountWake ==
    /\ http.pc = "sleeping"
    /\ http' = [http EXCEPT !.pc = "attempt", !.attempt = @ + 1]
    /\ UNCHANGED <<build_vars, web, other>>

InitCommitCount ==
    /\ BuildIdle
    /\ http \in {CommitCountCall(rs) : rs \in [1..2 -> CommitCountReplies]}
    /\ web = Idle
    /\ other = Idle

NextCommitCount ==
    \/ CommitCountRequest
    \/ CommitCountReply
    \/ CommitCountWake

SpecCommitCount == InitCommitCount /\ [][NextCommitCount]_vars

\* ------------------------------------------- GitHubClient._get_paginated

\* one entry of a Link header: <url>; rel="..."
Link(url, rel) == [url |-> url, rel |-> rel]

\* next_url is None, as the empty sequence; a url u is <<u>>
NoUrl == <<>>

RECURSIVE ParseNextLinkFrom(_, _)
ParseNextLinkFrom(link_header, i) ==
    IF i > Len(link_header) THEN NoUrl
    ELSE IF link_header[i].rel = "next" THEN <<link_header[i].url>>
    ELSE ParseNextLinkFrom(link_header, i + 1)

\* re.search(r'<([^>]+)>;\s*rel="next"', link_header): the first entry whose
\* rel is next, None when there is none
ParseNextLink(link_header) == ParseNextLinkFrom(link_header, 1)

\* the Link headers page j of k may carry; urls are page numbers
LinkHeaders(j, k) ==
    IF j < k
    THEN { <<Link(j + 1, "next")>>,
           <<Link(1, "first"), Link(j + 1, "next"), Link(k, "last")>> }
    ELSE { <<>>, <<Link(1, "first")>> }

\* the items page j may hold
PageItems(j) ==
    { <<>>,
      <<[page |-> j, item |-> 1]>>,
      <<[page |-> j, item |-> 1], [page |-> j, item |-> 2]>> }

\* the responses page j of k may be: it answers or fails
Pages(j, k) ==
    { [status |-> st, items |-> items, link |-> link] :
        st \in {200, 500}, items \in PageItems(j), link \in LinkHeaders(j, k) }

RECURSIVE ChainsFrom(_, _)
\* the first j pages of the chains of k pages
ChainsFrom(j, k) ==
    IF j = 0 THEN {<<>>}
    ELSE {Append(pages, page) : pages \in ChainsFrom(j - 1, k), page \in Pages(j, k)}

\* the chains of k pages an upstream listing may consist of
Chains(k) == ChainsFrom(k, k)

\* results.extend(resp.json()), mutated to put the new page first
PageExtendedFront(results, items) == items \o results

\* results.extend(resp.json())
PageExtended(results, items) == results \o items

\* the call as it starts: params = dict(params or {}) with per_page set,
\* next_url = url
PaginatedCall(pages) ==
    [call |-> "_get_paginated", pc |-> "loop", next_url |-> <<1>>, per_page |-> TRUE,
     results |-> <<>>, sent |-> <<>>, pages |-> pages]

\* while next_url: await self._get(next_url, params=params)
PageRequest ==
    /\ http.pc = "loop"
    /\ http.next_url # NoUrl
    /\ http' = [http EXCEPT !.pc = "awaiting",
                            !.sent = Append(@, [url |-> http.next_url[1],
                                                per_page |-> http.per_page])]
    /\ UNCHANGED <<build_vars, web, other>>

\* the response arrives: raise_for_status, extend, parse the Link header
PageReply ==
    /\ http.pc = "awaiting"
    /\ LET resp == http.pages[http.next_url[1]]
       IN  http' = IF ~IsSuccess(resp.status)
                   THEN [http EXCEPT !.pc = "raised"]
                   ELSE [http EXCEPT !.pc = "loop",
                                     !.results = PageExtended(@, resp.items),
                                     !.next_url = ParseNextLink(resp.link),
                                     !.per_page = FALSE]
    /\ UNCHANGED <<build_vars, web, other>>

\* the loop is over: return results
PagesReturn ==
    /\ http.pc = "loop"
    /\ http.next_url = NoUrl
    /\ http' = [http EXCEPT !.pc = "returned"]
    /\ UNCHANGED <<build_vars, web, other>>

InitPaginated ==
    /\ BuildIdle
    /\ http \in {PaginatedCall(pages) : pages \in UNION {Chains(k) : k \in 1..MaxPages}}
    /\ web = Idle
    /\ other = Idle

NextPaginated ==
    \/ PageRequest
    \/ PageReply
    \/ PagesReturn

SpecPaginated == InitPaginated /\ [][NextPaginated]_vars

\* ------------------------------------------------- FlyClient.list_apps

\* resp.json() as a bare list of app records
BareList(items) == [shape |-> "list", keys |-> {}, apps |-> items]

\* resp.json() as an object with the given keys; "apps" holds the records
Wrapped(keys, items) == [shape |-> "object", keys |-> keys, apps |-> items]

\* the app records a listing may hold
AppRecords ==
    { [name |-> "app1", status |-> "deployed"],
      [name |-> "app2", status |-> "suspended"] }

\* the bodies the fleet host may answer with: a bare list, an object that
\* wraps the list under "apps", an object without that key
AppsBodies ==
    LET lists == SeqsUpTo(AppRecords, MaxApps)
    IN  {BareList(l) : l \in lists}
        \cup {Wrapped(ks, l) : ks \in {{"apps"}, {"apps", "total_apps"}}, l \in lists}
        \cup {Wrapped(ks, <<>>) : ks \in {{}, {"total_apps"}, {"error"}}}

\* data.get("apps", data) if isinstance(data, dict) else data
Decoded(data) ==
    IF data.shape = "object"
    THEN (IF "apps" \in data.keys THEN BareList(data.apps) ELSE data)
    ELSE data

\* the call as it starts
ListAppsCall(org_slug, status, data) ==
    [call |-> "list_apps", pc |-> "call", org_slug |-> org_slug, sent |-> <<>>,
     status |-> status, data |-> data, ret |-> BareList(<<>>)]

\* await self._get(f"{BASE_URL}/v1/apps", params={"org_slug": org_slug})
AppsRequest ==
    /\ http.pc = "call"
    /\ http' = [http EXCEPT !.pc = "awaiting",
                            !.sent = Append(@, [org_slug |-> http.org_slug])]
    /\ UNCHANGED <<build_vars, web, other>>

\* the response arrives: raise_for_status, then the body is decoded
AppsReply ==
    /\ http.pc = "awaiting"
    /\ http' = IF ~IsSuccess(http.status)
               THEN [http EXCEPT !.pc = "raised"]
               ELSE [http EXCEPT !.pc = "returned", !.ret = Decoded(http.data)]
    /\ UNCHANGED <<build_vars, web, other>>

InitListApps ==
    /\ BuildIdle
    /\ http \in {ListAppsCall(FlySlugs[1], status, data) :
                    status \in {200, 500}, data \in AppsBodies}
    /\ web = Idle
    /\ other = Idle

NextListApps ==
    \/ AppsRequest
    \/ AppsReply

SpecListApps == InitListApps /\ [][NextListApps]_vars

\* ------------------------------------------------------ require_api_key

\* the keys a request or the environment may carry: none, empty, two keys
ApiKeys == {None, "", "k1", "k2"}

\* the dependency raises HTTPException(status_code)
HttpError(status_code) == [raised |-> TRUE, status_code |-> status_code, ret |-> None]

\* the dependency returns
Accepted(key) == [raised |-> FALSE, status_code |-> 0, ret |-> key]

\* api_key or header, mutated to look at the header first
ProvidedHeaderFirst(api_key, header) == IF Truthy(header) THEN header ELSE api_key

\* provided = api_key or request.headers.get("X-API-Key")
Provided(api_key, header) == IF Truthy(api_key) THEN api_key ELSE header

\* require_api_key: expected is DASHBOARD_API_KEY, None when it is unset
RequireApiKey(expected, api_key, header) ==
    IF ~Truthy(expected) THEN HttpError(500)
    ELSE IF ~Truthy(Provided(api_key, header)) THEN HttpError(401)
    ELSE IF Provided(api_key, header) # expected THEN HttpError(403)
    ELSE Accepted(Provided(api_key, header))

\* ------------------------------------------------------------------ routes

Routes == {"/", "/api/dashboard", "/api/dashboard/html"}

\* the dependencies of a route, mutated to leave GET / without a key check
DependenciesOpenRoot(route) ==
    IF route = "/" THEN <<"get_aggregator">>
    ELSE <<"require_api_key", "get_aggregator">>

\* the Depends(...) parameters of the route's handler, in declaration order
Dependencies(route) == <<"require_api_key", "get_aggregator">>

\* a GET request as it reaches its route
Request(route, expected, api_key, header) ==
    [pc |-> "dependencies", route |-> route, expected |-> expected,
     api_key |-> api_key, header |-> header, deps |-> Dependencies(route),
     auth |-> <<>>, status |-> 0, builds |-> 0]

\* Depends(require_api_key) is resolved: an HTTPException ends the request
ResolveApiKey ==
    /\ web.pc = "dependencies"
    /\ web.deps # <<>>
    /\ Head(web.deps) = "require_api_key"
    /\ LET result == RequireApiKey(web.expected, web.api_key, web.header)
       IN  web' = IF result.raised
                  THEN [web EXCEPT !.pc = "responded", !.auth = <<result>>,
                                   !.status = result.status_code]
                  ELSE [web EXCEPT !.deps = Tail(@), !.auth = <<result>>]
    /\ UNCHANGED <<build_vars, http, other>>

\* Depends(get_aggregator) is resolved: a new Aggregator for this request
ResolveAggregator ==
    /\ web.pc = "dependencies"
    /\ web.deps # <<>>
    /\ Head(web.deps) = "get_aggregator"
    /\ web' = [web EXCEPT !.deps = Tail(@)]
    /\ UNCHANGED <<build_vars, http, other>>

\* every dependency is resolved: the handler awaits aggregator.build() and
\* answers with its data
Handler ==
    /\ web.pc = "dependencies"
    /\ web.deps = <<>>
    /\ web' = [web EXCEPT !.pc = "responded", !.builds = @ + 1, !.status = 200]
    /\ UNCHANGED <<build_vars, http, other>>

InitRoutes ==
    /\ BuildIdle
    /\ http = Idle
    /\ web \in {Request(route, expected, api_key, header) :
                   route \in Routes, expected \in ApiKeys,
                   api_key \in ApiKeys, header \in ApiKeys}
    /\ other = Idle

NextRoutes ==
    \/ ResolveApiKey
    \/ ResolveAggregator
    \/ Handler

SpecRoutes == InitRoutes /\ [][NextRoutes]_vars

\* ------------------------------------------- two build() calls interleaved

ConcurrentConfigs ==
    { [github_orgs |-> <<OrgConfig(OrgNames[1], TRUE, OneOverride)>>,
       fly_orgs |-> <<FlySlugs[1]>>] }

\* the locals of the build() that is running, as its coroutine frame holds
\* them while it is suspended; id tells the two calls apart
Locals(id) ==
    [ id |-> id, pc |-> pc, errors |-> errors, repo_views |-> repo_views,
      fly_lookup |-> fly_lookup, org_i |-> org_i, tasks |-> tasks,
      completed |-> completed, listing |-> listing, enriched |-> enriched,
      failures |-> failures, fly_i |-> fly_i, apps |-> apps, app_i |-> app_i,
      fleet_calls |-> fleet_calls, orphans |-> orphans ]

\* an error list kept on the Aggregator: the resumed call goes on with the
\* list the suspended one was filling
ResumedErrorsShared(frame) == errors

\* errors: list[str] = [] is a local of build(): the resumed call finds its own
ResumedErrors(frame) == frame.errors

\* the event loop suspends the running build() at its await and resumes the
\* other one; self._config, self._github and self._fly are all they share
Switch ==
    /\ other # Idle
    /\ other' = Locals(3 - other.id)
    /\ pc' = other.pc
    /\ errors' = ResumedErrors(other)
    /\ repo_views' = other.repo_views
    /\ fly_lookup' = other.fly_lookup
    /\ org_i' = other.org_i
    /\ tasks' = other.tasks
    /\ completed' = other.completed
    /\ listing' = other.listing
    /\ enriched' = other.enriched
    /\ failures' = other.failures
    /\ fly_i' = other.fly_i
    /\ apps' = other.apps
    /\ app_i' = other.app_i
    /\ fleet_calls' = other.fleet_calls
    /\ orphans' = other.orphans
    /\ UNCHANGED <<upstream, config, fly, attention, all_clear, http, web>>

\* two calls of build() on one Aggregator, the second suspended at its start
InitConcurrent ==
    /\ upstream = HostsName(ConcurrentHosts)
    /\ config \in ConcurrentConfigs
    /\ fly = TRUE
    /\ pc = BuildStart
    /\ errors = <<>>
    /\ repo_views = <<>>
    /\ fly_lookup = <<>>
    /\ org_i = 1
    /\ tasks = <<>>
    /\ completed = <<>>
    /\ listing = <<>>
    /\ enriched = <<>>
    /\ failures = 0
    /\ fly_i = 1
    /\ apps = <<>>
    /\ app_i = 1
    /\ fleet_calls = <<>>
    /\ orphans = <<>>
    /\ attention = <<>>
    /\ all_clear = <<>>
    /\ http = Idle
    /\ web = Idle
    /\ other = Locals(2)

NextConcurrent ==
    \/ Next
    \/ Switch

SpecConcurrent == InitConcurrent /\ [][NextConcurrent]_vars

\* ------------------------------------------- an override name used twice

\* two overrides of r1 that differ in category, tags and fleet app
DuplicateOverrides ==
    { << RepoConfig("r1", "Frontend", <<"prod">>, "appX"),
         RepoConfig("r1", "Backend", <<>>, fly_app) >> : fly_app \in {"appZ", None} }

\* the runs with a repeated override name, under either inclusion policy
DuplicateConfigs ==
    { [github_orgs |-> <<OrgConfig(OrgNames[1], include_all, repos)>>,
       fly_orgs |-> FlySlugs] :
        include_all \in BOOLEAN, repos \in DuplicateOverrides }

InitDuplicates == InitWith(FleetHosts, DuplicateConfigs, {TRUE})

SpecDuplicates == InitDuplicates /\ [][Next]_vars

\* ------------------------------------------- the fleet, then the orgs

\* two orgs that include every repo and two fleet orgs
OrderConfigs ==
    { [github_orgs |-> << OrgConfig(OrgNames[1], TRUE, OneOverride),
                          OrgConfig(OrgNames[2], TRUE, OneOverride) >>,
       fly_orgs |-> FlySlugs] }

\* the ordering runs, with and without a fleet client
InitOrder == InitWith(FleetHosts, OrderConfigs, BOOLEAN)

SpecOrder == InitOrder /\ [][Next]_vars

\* ------------------------------------------- GitHubClient.list_org_repos

\* the names list_org_repos is called with: an organization, the
\* authenticated account in two spellings, another account
AccountNames == {"acme", "alice", "Alice", "bob"}

\* the logins GET /user may answer with
Logins == {"alice", "ALICE"}

\* the statuses a request may end with; 0 is a transport error
ListingStatuses == {200, 404, 500, 0}

\* the items each endpoint lists
EndpointItems(url) ==
    CASE url = "/orgs/{org}/repos" -> <<"org-repo">>
      [] url = "/user/repos" -> <<"private-repo", "public-repo">>
      [] url = "/users/{org}/repos" -> <<"public-repo">>

\* a fallback on every error status
IsPersonalAccountAnyError(status) == status # 0 /\ ~IsSuccess(status)

\* except httpx.HTTPStatusError as exc: if exc.response.status_code != 404: raise
IsPersonalAccount(status) == status = 404

\* if org.lower() == authed_user.lower(): /user/repos, else /users/{org}/repos
FallbackUrl(org, authed_user) ==
    IF Lower(org) = Lower(authed_user) THEN "/user/repos" ELSE "/users/{org}/repos"

\* a request as the client's log keeps it: the call of list_org_repos it
\* belongs to, its url, the name in the url, the status it ended with
Sent(k, url, name, status) == [k |-> k, url |-> url, name |-> name, status |-> status]

\* a GitHubClient about to serve the calls list_org_repos(orgs[1]), ...:
\* self._authenticated_user is None
ListingClient(orgs, login) ==
    [call |-> "list_org_repos", pc |-> "orgs", orgs |-> orgs, k |-> 1,
     login |-> login, authenticated_user |-> None, sent |-> <<>>,
     results |-> <<>>]

\* the call in progress ends: it returns items, or raises with a status
ListingEnds(h, raised, status, items) ==
    [h EXCEPT !.results = Append(@, [raised |-> raised, status |-> status,
                                      items |-> items]),
              !.k = @ + 1,
              !.pc = IF h.k + 1 > Len(h.orgs) THEN "finished" ELSE "orgs"]

\* await self._get_paginated(f"{BASE_URL}/orgs/{org}/repos", ...) answers
OrgsListed ==
    /\ http.pc = "orgs"
    /\ \E status \in ListingStatuses :
        LET org == http.orgs[http.k]
            h == [http EXCEPT !.sent = Append(@, Sent(http.k, "/orgs/{org}/repos", org, status))]
        IN  http' = IF IsSuccess(status)
                    THEN ListingEnds(h, FALSE, status, EndpointItems("/orgs/{org}/repos"))
                    ELSE IF status # 0 /\ IsPersonalAccount(status)
                    THEN [h EXCEPT !.pc = IF h.authenticated_user = None
                                          THEN "user" ELSE "fallback"]
                    ELSE ListingEnds(h, TRUE, status, <<>>)
    /\ UNCHANGED <<build_vars, web, other>>

\* await self._get(f"{BASE_URL}/user") answers: the login is kept
UserFetched ==
    /\ http.pc = "user"
    /\ \E status \in {200, 500, 0} :
        LET h == [http EXCEPT !.sent = Append(@, Sent(http.k, "/user", "", status))]
        IN  http' = IF IsSuccess(status)
                    THEN [h EXCEPT !.authenticated_user = h.login, !.pc = "fallback"]
                    ELSE ListingEnds(h, TRUE, status, <<>>)
    /\ UNCHANGED <<build_vars, web, other>>

\* the listing of the personal account's endpoint answers
FallbackListed ==
    /\ http.pc = "fallback"
    /\ \E status \in ListingStatuses :
        LET org == http.orgs[http.k]
            url == FallbackUrl(org, http.authenticated_user)
            h == [http EXCEPT !.sent = Append(@, Sent(http.k, url, org, status))]
        IN  http' = IF IsSuccess(status)
                    THEN ListingEnds(h, FALSE, status, EndpointItems(url))
                    ELSE ListingEnds(h, TRUE, status, <<>>)
    /\ UNCHANGED <<build_vars, web, other>>

InitListing ==
    /\ BuildIdle
    /\ http \in {ListingClient(orgs, login) :
                    orgs \in [1..2 -> AccountNames], login \in Logins}
    /\ web = Idle
    /\ other = Idle

NextListing ==
    \/ OrgsListed
    \/ UserFetched
    \/ FallbackListed

SpecListing == InitListing /\ [][NextListing]_vars

\* ------------------------------------ attention read before and after attach

\* @computed_field @property: the signals are computed from the view at each
\* read; this variant keeps the signals computed when the view was built
AttentionAtConstruction(view) == Attention([view EXCEPT !.fly_app = {}])

\* view.attention, read now
AttentionRead(view) == Attention(view)

\* the views _enrich_repo returns: no fleet app yet; r1 is the repo the
\* override binds to appX, r2 is bound to nothing
ConstructedViews ==
    { [v EXCEPT !.repo.org = OrgNames[1], !.repo.name = n] :
        v \in {w \in AttentionViews : w.fly_app = {} /\ Len(w.repo.branches) <= 1},
        n \in {"r1", "r2"} }

\* the fleet lookups build() attaches from: empty, or appX in some condition
AttachLookups ==
    {<<>>} \cup {[n \in {"appX"} |-> CHOOSE a \in app : TRUE] : app \in AttentionFlyApps \ {{}}}

\* build()'s loop body on the view: repo_view.fly_app = fly_lookup[...] when
\* the override's app is in the lookup
AttachToView ==
    /\ pc = "constructed"
    /\ repo_views' = <<AttachFlyApp(config.github_orgs[1], repo_views[1], fly_lookup)>>
    /\ pc' = "attached"
    /\ UNCHANGED <<upstream, config, fly, errors, fly_lookup, org_i, tasks,
                   completed, listing, enriched, failures, fly_i, apps, app_i,
                   fleet_calls, orphans, attention, all_clear, http, web, other>>

\* view.attention is read, before or after the attach
ReadView ==
    /\ pc \in {"constructed", "attached"}
    /\ attention' = <<AttentionRead(repo_views[1])>>
    /\ UNCHANGED <<upstream, config, fly, pc, errors, repo_views, fly_lookup, org_i,
                   tasks, completed, listing, enriched, failures, fly_i, apps, app_i,
                   fleet_calls, orphans, all_clear, http, web, other>>

InitProjection ==
    /\ upstream = HostsName(Hosts)
    /\ config = [github_orgs |-> <<OrgConfig(OrgNames[1], TRUE, OneOverride)>>,
                 fly_orgs |-> <<FlySlugs[1]>>]
    /\ fly = TRUE
    /\ pc = "constructed"
    /\ errors = <<>>
    /\ repo_views \in {<<v>> : v \in ConstructedViews}
    /\ fly_lookup \in AttachLookups
    /\ org_i = 1
    /\ tasks = <<>>
    /\ completed = <<>>
    /\ listing = <<>>
    /\ enriched = <<>>
    /\ failures = 0
    /\ fly_i = 1
    /\ apps = <<>>
    /\ app_i = 1
    /\ fleet_calls = <<>>
    /\ orphans = <<>>
    /\ attention = <<>>
    /\ all_clear = <<>>
    /\ http = Idle
    /\ web = Idle
    /\ other = Idle

NextProjection ==
    \/ AttachToView
    \/ ReadView

SpecProjection == InitProjection /\ [][NextProjection]_vars

\* ------------------------------------------- comparisons with signed counts

\* the signed-count runs: one org that includes every repo, with a fleet client
InitSigned == InitWith(SignedHosts, EnrichConfigs, {TRUE})

SpecSigned == InitSigned /\ [][Next]_vars

\* --------------------------------------------- two orgs, several comparisons

\* the sequencing runs: two orgs that include every repo, each repo with up
\* to two branches to compare, with a fleet client
InitSequence == InitWith(SignedHosts, OrderConfigs, {TRUE})

SpecSequence == InitSequence /\ [][Next]_vars

\* ------------------------------------------ fleet apps named like the repos

\* the namesake runs: the first org binds r1 to appX, the second binds r2 to
\* an app no fleet org has and leaves r1 unbound
NamesakeConfigs ==
    { [github_orgs |-> << OrgConfig(OrgNames[1], TRUE, OneOverride),
                          OrgConfig(OrgNames[2], TRUE, TwoOverrides) >>,
       fly_orgs |-> <<FlySlugs[1]>>] }

InitNamesake == InitWith(NamesakeHosts, NamesakeConfigs, BOOLEAN)

SpecNamesake == InitNamesake /\ [][Next]_vars

\* ------------------------- list_org_repos over a paginated listing, in build()

\* the repo record page j of the org's listing holds
PagedNames == <<"r1", "r2", "r3", "r4", "r5">>

\* the chain of k pages of /orgs/{org}/repos whose page f (if any) ends with
\* status st (0: the request raised without a response): page j holds one repo record and links to page j + 1
OrgPages(k, f, st) ==
    [j \in 1..k |->
        [status |-> IF j = f THEN st ELSE 200,
         items |-> <<[name |-> PagedNames[j], default_branch |-> Missing]>>,
         link |-> IF j < k THEN <<Link(j + 1, "next")>> ELSE <<>>]]

\* the listings of the account's fallback endpoint: one page, or a failure
FallbackPages ==
    { <<[status |-> st, items |-> <<[name |-> "u1", default_branch |-> Missing]>>,
        link |-> <<>>]>> : st \in {200, 500} }

\* list_org_repos as it starts: _get_paginated on the /orgs endpoint
PagedListing(org_pages, fallback) ==
    [call |-> "list_org_repos", stage |-> "orgs", pc |-> "loop", next_url |-> <<1>>,
     per_page |-> TRUE, results |-> <<>>, sent |-> <<>>, pages |-> org_pages,
     org_pages |-> org_pages, fallback |-> fallback]

\* the status the raising request of the call in progress ended with
RaisedStatus(h) == h.pages[h.next_url[1]].status

\* the except clause of list_org_repos takes the personal-account path
TakesFallback(h) ==
    /\ h.pc = "raised"
    /\ h.stage = "orgs"
    /\ RaisedStatus(h) # 0
    /\ IsPersonalAccount(RaisedStatus(h))

\* list_org_repos raises to its caller
ListingRaises(h) == h.pc = "raised" /\ ~TakesFallback(h)

\* except httpx.HTTPStatusError with a 404: GET /user answers or raises, then
\* _get_paginated starts on the account's endpoint
PersonalFallback ==
    /\ TakesFallback(http)
    /\ \E user_ok \in BOOLEAN :
        http' = IF user_ok
                THEN [http EXCEPT !.stage = "fallback", !.pc = "loop",
                                  !.next_url = <<1>>, !.per_page = TRUE,
                                  !.results = <<>>, !.pages = http.fallback]
                ELSE [http EXCEPT !.stage = "user"]
    /\ UNCHANGED <<build_vars, web, other>>

\* _fetch_org_repos: list_org_repos returned its list, or raised
OrgReposListed ==
    /\ pc = "list_org_repos"
    /\ http.pc = "returned" \/ ListingRaises(http)
    /\ LET answer == IF http.pc = "returned" THEN Ok(http.results) ELSE Raised(<<>>)
       IN  /\ failures' = IF answer.ok THEN failures ELSE failures + 1
           /\ listing' = Append(listing, answer)
           /\ errors' = Appended(errors, OrgError(Org.name, answer))
           /\ OrgFetched(answer, ReposToProcess(Org, answer.val))
    /\ completed' = StartedDone(tasks')
    /\ UNCHANGED <<http, web, other, orphans, attention, all_clear, upstream, config, fly,
                   repo_views, fly_lookup, fly_i, apps, app_i, fleet_calls>>

\* build() without a fleet client, at its call of list_org_repos for its one
\* org, whose listing has up to MaxPages pages
InitPagedListing ==
    /\ upstream = HostsName(Hosts)
    /\ config = [github_orgs |-> <<OrgConfig(OrgNames[1], TRUE, OneOverride)>>,
                 fly_orgs |-> <<>>]
    /\ fly = FALSE
    /\ pc = "list_org_repos"
    /\ errors = <<>>
    /\ repo_views = <<>>
    /\ fly_lookup = <<>>
    /\ org_i = 1
    /\ tasks = <<>>
    /\ completed = <<>>
    /\ listing = <<>>
    /\ enriched = <<>>
    /\ failures = 0
    /\ fly_i = 1
    /\ apps = <<>>
    /\ app_i = 1
    /\ fleet_calls = <<>>
    /\ orphans = <<>>
    /\ attention = <<>>
    /\ all_clear = <<>>
    /\ http \in { PagedListing(OrgPages(k, f, st), fallback) :
                    k \in 1..MaxPages, f \in 1..(MaxPages + 1),
                    st \in {404, 500, 0}, fallback \in FallbackPages }
    /\ web = Idle
    /\ other = Idle

NextPagedListing ==
    \/ PageRequest
    \/ PageReply
    \/ PagesReturn
    \/ PersonalFallback
    \/ OrgReposListed

SpecPagedListing == InitPagedListing /\ [][NextPagedListing]_vars

\* ================================================================ claims

Done == pc = "done"

OrgAt(o) == config.github_orgs[o]

OverrideNames(org_config) ==
    {org_config.repos[k].name : k \in 1..Len(org_config.repos)}

RECURSIVE Kept(_, _, _)
\* the names of the first i records whose name is in names, in record order
Kept(records, names, i) ==
    IF i = 0 THEN <<>>
    ELSE IF records[i].name \in names
         THEN Append(Kept(records, names, i - 1), records[i].name)
         ELSE Kept(records, names, i - 1)

\* the names of the working set of the org at position o, in the order
\* list_org_repos answered (empty when it raised)
WorkingSet(o) ==
    LET records == listing[o].val
    IN  IF OrgAt(o).include_all
        THEN [k \in 1..Len(records) |-> records[k].name]
        ELSE Kept(records, OverrideNames(OrgAt(o)), Len(records))

RECURSIVE Concatenation(_)
\* the working sets of the first o orgs, concatenated in configuration order
Concatenation(o) ==
    IF o = 0 THEN <<>>
    ELSE Concatenation(o - 1) \o
         [k \in 1..Len(WorkingSet(o)) |-> <<OrgAt(o).name, WorkingSet(o)[k]>>]

\* the (org, name) pairs of a list of views, in list order
Names(views) == [k \in 1..Len(views) |-> <<views[k].repo.org, views[k].repo.name>>]

\* the views an org contributed to the result
ViewsOf(o) == SelectSeq(repo_views, LAMBDA v : v.repo.org = OrgAt(o).name)

\* C1: the repo list is the concatenation, in configuration order, of the
\* working sets of the orgs processed, each in the order list_org_repos
\* answered, whatever the order the enrichments completed in
C1_OrderStable == Names(repo_views) = Concatenation(Len(enriched))

\* some org's enrichments completed out of input order, and two orgs contributed
C1_Witness ==
    /\ Done
    /\ \E o \in 1..Len(enriched) : enriched[o].completed = <<2, 1>>
    /\ \A o \in 1..2 : o <= Len(config.github_orgs) /\ ViewsOf(o) # <<>>

\* C2: whatever upstream calls raise, build() keeps running until it returns:
\* it is never left in a state other than its return with no step to take
C2_BuildReturns ==
    /\ pc \in {"list_apps", "list_machines", "list_org_repos", "gather", "done"}
    /\ Done \/ ENABLED Next

\* build() returned repos after a fleet call and an org listing raised
C2_Witness ==
    /\ Done
    /\ \E c \in 1..Len(fleet_calls) : ~fleet_calls[c].ok
    /\ \E o \in 1..Len(listing) : ~listing[o].ok
    /\ repo_views # <<>>

\* the error strings that mention x
Mentioning(x) == {k \in 1..Len(errors) : x \in Range(errors[k].ident)}

\* C3: an org whose listing raised contributes no repo and one error string
\* naming it, and every other org contributes its own working set
C3_OrgFailureIsolated ==
    /\ Done => Len(listing) = Len(config.github_orgs)
    /\ \A a \in 1..Len(enriched) :
        ~listing[a].ok =>
            /\ ViewsOf(a) = <<>>
            /\ Cardinality(Mentioning(OrgAt(a).name)) = 1
            /\ \A k \in Mentioning(OrgAt(a).name) :
                  errors[k].what = "GitHub org" /\ errors[k].ident = <<OrgAt(a).name>>
            /\ \A b \in 1..Len(enriched) :
                  b # a => Names(ViewsOf(b)) =
                           [k \in 1..Len(WorkingSet(b)) |-> <<OrgAt(b).name, WorkingSet(b)[k]>>]

\* the first org's listing raised and the second org contributed repos
C3_Witness ==
    /\ Done
    /\ Len(listing) = 2
    /\ ~listing[1].ok
    /\ ViewsOf(2) # <<>>

\* C8: with include_all = false an org contributes exactly the listed repos a
\* configured override names; with include_all = true every listed repo
C8_InclusionPolicy ==
    \A o \in 1..Len(enriched) :
        listing[o].ok =>
            LET listed == {listing[o].val[k].name : k \in 1..Len(listing[o].val)}
                returned == {ViewsOf(o)[k].repo.name : k \in 1..Len(ViewsOf(o))}
            IN  returned = IF OrgAt(o).include_all
                           THEN listed
                           ELSE listed \cap OverrideNames(OrgAt(o))

\* an org without include_all dropped a listed repo and kept another, and an
\* org with include_all returned a repo that has no override
C8_Witness ==
    /\ Done
    /\ \E o \in 1..Len(enriched) :
        /\ ~OrgAt(o).include_all
        /\ ViewsOf(o) # <<>>
        /\ Len(ViewsOf(o)) < Len(listing[o].val)
    /\ \E o \in 1..Len(enriched) :
        /\ OrgAt(o).include_all
        /\ \E k \in 1..Len(ViewsOf(o)) :
              ViewsOf(o)[k].repo.name \notin OverrideNames(OrgAt(o))

\* the position of the configured org with this name
OrgIndex(name) == CHOOSE o \in 1..Len(config.github_orgs) : OrgAt(o).name = name

\* the Fly apps the overrides of the view's own org bind the view's repo to
Bindings(v) ==
    LET repos == OrgAt(OrgIndex(v.repo.org)).repos
    IN  {repos[k].fly_app : k \in {j \in 1..Len(repos) :
            repos[j].name = v.repo.name /\ Truthy(repos[j].fly_app)}}

RECURSIVE ComparesRaised(_, _)
\* the compare_branches calls of the first i tasks that raised
ComparesRaised(ts, i) ==
    IF i = 0 THEN 0
    ELSE ComparesRaised(ts, i - 1) +
         Cardinality({k \in 1..Len(ts[i].compared) : ~ts[i].compared[k].answer.ok})

RECURSIVE ComparesRaisedIn(_)
ComparesRaisedIn(o) ==
    IF o = 0 THEN 0
    ELSE ComparesRaisedIn(o - 1) +
         ComparesRaised(enriched[o].tasks, Len(enriched[o].tasks))

\* C9: a view carries the Fly app its override binds it to when the lookup
\* has it, and no app otherwise; attaching appends no error string (the
\* errors are those of the calls that raised, compare_branches excepted)
C9_FlyAttach ==
    /\ \A k \in 1..Len(repo_views) :
        LET v == repo_views[k]
        IN  IF \E x \in Bindings(v) : x \in DOMAIN fly_lookup
            THEN /\ Cardinality(v.fly_app) = 1
                 /\ \E a \in v.fly_app : a.name \in Bindings(v)
            ELSE v.fly_app = {}
    /\ Len(errors) + ComparesRaisedIn(Len(enriched)) + ComparesRaised(tasks, Len(tasks))
       = failures

\* one result holds a view with its app attached, a view bound to an app the
\* lookup lacks and a view without an override
C9_Witness ==
    /\ Done
    /\ \E k \in 1..Len(repo_views) : repo_views[k].fly_app # {}
    /\ \E k \in 1..Len(repo_views) :
          /\ Bindings(repo_views[k]) # {}
          /\ repo_views[k].fly_app = {}
          /\ fly_lookup # <<>>
    /\ \E k \in 1..Len(repo_views) :
          repo_views[k].repo.name
              \notin OverrideNames(OrgAt(OrgIndex(repo_views[k].repo.org)))

FleetErrors == {k \in 1..Len(errors) : errors[k].what \in {"Fly org", "Fly machines for"}}

\* C10: without a fleet client build() calls no fleet host, attaches no Fly
\* app and records no fleet error
C10_NoFleetClient ==
    ~fly =>
        /\ fleet_calls = <<>>
        /\ fly_lookup = <<>>
        /\ FleetErrors = {}
        /\ \A k \in 1..Len(repo_views) : repo_views[k].fly_app = {}

\* a build without a client returned a repo that an override binds to an app,
\* with a fleet org configured
C10_Witness ==
    /\ Done
    /\ ~fly
    /\ config.fly_orgs # <<>>
    /\ \E k \in 1..Len(repo_views) : Bindings(repo_views[k]) # {}

\* the error strings of one kind about one repo
ErrorsAbout(what, org, repo) ==
    {k \in 1..Len(errors) : errors[k].what = what /\ errors[k].ident = <<org, repo>>}

\* C4: every repo of a working set is returned; a repo whose list_branches
\* raised has no branches and exactly one branch-listing error string, the
\* only string mentioning it unless its list_codespaces raised too; a repo
\* whose list_branches answered has no branch-listing error string
C4_BranchFailureNonFatal ==
    \A o \in 1..Len(enriched) :
        LET ts == enriched[o].tasks
            org == OrgAt(o).name
        IN  /\ Names(ViewsOf(o)) =
                   [k \in 1..Len(WorkingSet(o)) |-> <<org, WorkingSet(o)[k]>>]
            /\ Len(ts) = Len(WorkingSet(o))
            /\ \A k \in 1..Len(ts) :
                  LET repo == WorkingSet(o)[k]
                  IN  IF ts[k].raw_branches.ok
                      THEN ErrorsAbout("Branches for", org, repo) = {}
                      ELSE /\ ViewsOf(o)[k].repo.branches = <<>>
                           /\ Cardinality(ErrorsAbout("Branches for", org, repo)) = 1
                           /\ ts[k].raw_codespaces.ok =>
                                  Mentioning(repo) \cap Mentioning(org)
                                      = ErrorsAbout("Branches for", org, repo)

\* of two repos of one org, list_branches raised for the first only, and
\* both were returned, the second with its branches
C4_Witness ==
    /\ Done
    /\ \E o \in 1..Len(enriched) :
        /\ Len(enriched[o].tasks) = 2
        /\ ~enriched[o].tasks[1].raw_branches.ok
        /\ enriched[o].tasks[2].raw_branches.ok
        /\ Len(ViewsOf(o)) = 2
        /\ ViewsOf(o)[2].repo.branches # <<>>

\* the counts compare_branches answered task t for the branch head: zero
\* when the call raised or was not made
Counts(t, head) ==
    LET made == {k \in 1..Len(t.compared) :
                    t.compared[k].head = head /\ t.compared[k].answer.ok}
    IN  IF made = {} THEN NoComparison ELSE t.compared[CHOOSE k \in made : TRUE].answer.val

\* the branch list the answers of list_branches and compare_branches give a
\* repo whose default branch is default_branch
BranchesFrom(t, default_branch) ==
    LET raw == t.raw_branches.val
    IN  [k \in 1..Len(raw) |->
            IF raw[k].name = default_branch
            THEN BranchInfo(raw[k].name, TRUE, 0, 0)
            ELSE BranchInfo(raw[k].name, FALSE,
                            Counts(t, raw[k].name).ahead_by,
                            Counts(t, raw[k].name).behind_by)]

\* C5: a repo whose list_codespaces raised is returned with no codespaces, a
\* count of 0 and the branches its branch answers give, and exactly one
\* codespace error string names it
C5_CodespaceFailureNonFatal ==
    \A o \in 1..Len(enriched) :
        LET ts == enriched[o].tasks
        IN  /\ Len(ViewsOf(o)) = Len(ts)
            /\ \A k \in 1..Len(ts) :
                  ~ts[k].raw_codespaces.ok =>
                      LET r == ViewsOf(o)[k].repo
                      IN  /\ r.name = ts[k].repo_data.name
                          /\ r.codespaces = <<>>
                          /\ r.codespace_count = 0
                          /\ r.branches = BranchesFrom(ts[k], r.default_branch)
                          /\ Cardinality(ErrorsAbout("Codespaces for", r.org, r.name)) = 1

\* list_codespaces raised for a repo that was returned with a compared branch
C5_Witness ==
    /\ Done
    /\ \E o \in 1..Len(enriched) : \E k \in 1..Len(enriched[o].tasks) :
        /\ ~enriched[o].tasks[k].raw_codespaces.ok
        /\ \E b \in 1..Len(ViewsOf(o)[k].repo.branches) :
              ViewsOf(o)[k].repo.branches[b].ahead > 0

RECURSIVE NonDefault(_, _, _)
\* the names among the first i branch records other than default_branch, in
\* listing order
NonDefault(raw, default_branch, i) ==
    IF i = 0 THEN <<>>
    ELSE IF raw[i].name = default_branch
         THEN NonDefault(raw, default_branch, i - 1)
         ELSE Append(NonDefault(raw, default_branch, i - 1), raw[i].name)

\* C6: when compare_branches raised for a branch, the repo's error strings
\* are only those of its raising list calls, the branch is listed with
\* ahead = behind = 0, and every other non-default branch of the listing was
\* compared in turn and is listed with the counts its answer gave
C6_CompareFailureSilent ==
    \A o \in 1..Len(enriched) : \A k \in 1..Len(enriched[o].tasks) :
        LET t == enriched[o].tasks[k]
            r == ViewsOf(o)[k].repo
            raw == t.raw_branches.val
        IN  (\E c \in 1..Len(t.compared) : ~t.compared[c].answer.ok) =>
                /\ Cardinality(Mentioning(r.name) \cap Mentioning(r.org))
                       = IF t.raw_codespaces.ok THEN 0 ELSE 1
                /\ \A c \in 1..Len(t.compared) :
                      ~t.compared[c].answer.ok =>
                          \E b \in 1..Len(r.branches) :
                              r.branches[b] = BranchInfo(t.compared[c].head, FALSE, 0, 0)
                /\ [c \in 1..Len(t.compared) |-> t.compared[c].head]
                       = NonDefault(raw, r.default_branch, Len(raw))
                /\ r.branches = BranchesFrom(t, r.default_branch)

\* the compare of a repo's first non-default branch raised and the compare
\* of a later branch answered with counts
C6_Witness ==
    /\ Done
    /\ \E o \in 1..Len(enriched) : \E k \in 1..Len(enriched[o].tasks) :
        LET t == enriched[o].tasks[k]
        IN  /\ Len(t.compared) = 2
            /\ ~t.compared[1].answer.ok
            /\ t.compared[2].answer.ok
            /\ \E b \in 1..Len(ViewsOf(o)[k].repo.branches) :
                  ViewsOf(o)[k].repo.branches[b].behind > 0

\* C7: a returned branch is marked default exactly when its name is the
\* repo's default_branch, a branch marked default has ahead = behind = 0, and
\* no compare_branches call has the default branch as head
C7_DefaultBranchMarking ==
    /\ \A k \in 1..Len(repo_views) :
        LET r == repo_views[k].repo
        IN  \A b \in 1..Len(r.branches) :
                /\ r.branches[b].is_default <=> r.branches[b].name = r.default_branch
                /\ r.branches[b].is_default =>
                       r.branches[b].ahead = 0 /\ r.branches[b].behind = 0
    /\ \A o \in 1..Len(enriched) : \A k \in 1..Len(enriched[o].tasks) :
        \A c \in 1..Len(enriched[o].tasks[k].compared) :
            /\ enriched[o].tasks[k].compared[c].head # ViewsOf(o)[k].repo.default_branch
            /\ enriched[o].tasks[k].compared[c].base = ViewsOf(o)[k].repo.default_branch
    /\ \A k \in 1..Len(tasks) : \A c \in 1..Len(tasks[k].compared) :
        tasks[k].compared[c].head #
            (IF tasks[k].repo_data.default_branch = Missing
             THEN "main" ELSE tasks[k].repo_data.default_branch)

\* a repo whose default branch is dev was returned with dev marked default
\* and with main compared and not marked
C7_Witness ==
    /\ Done
    /\ \E k \in 1..Len(repo_views) :
        LET r == repo_views[k].repo
        IN  /\ r.default_branch = "dev"
            /\ \E b \in 1..Len(r.branches) :
                  r.branches[b].name = "dev" /\ r.branches[b].is_default
            /\ \E b \in 1..Len(r.branches) :
                  /\ r.branches[b].name = "main"
                  /\ ~r.branches[b].is_default
                  /\ r.branches[b].ahead > 0

\* the list_apps calls made so far, in call order
AppsCalls == SelectSeq(fleet_calls, LAMBDA c : c.call = "list_apps")

\* _build_fly_lookup has returned (or was not called)
FleetDone == pc \in {"list_org_repos", "gather", "done"}

\* the apps of an answer of list_apps that have a name, in answer order
Named(as) == SelectSeq(as, LAMBDA a : Truthy(a.name))

\* C11: a fleet org whose list_apps raised has exactly one error string naming
\* its slug; list_apps is called for every configured fleet org in turn and
\* the named apps of every answer are indexed; the repos of every org are
\* fetched and returned
C11_FlyOrgFailureIsolated ==
    /\ (fly /\ FleetDone) =>
           [c \in 1..Len(AppsCalls) |-> AppsCalls[c].arg] = config.fly_orgs
    /\ \A c \in 1..Len(AppsCalls) :
        IF AppsCalls[c].ok
        THEN /\ Mentioning(AppsCalls[c].arg) = {}
             /\ FleetDone =>
                    \A a \in 1..Len(Named(AppsCalls[c].val)) :
                        Named(AppsCalls[c].val)[a].name \in DOMAIN fly_lookup
        ELSE /\ Cardinality(Mentioning(AppsCalls[c].arg)) = 1
             /\ \A k \in Mentioning(AppsCalls[c].arg) :
                    /\ errors[k].what = "Fly org"
                    /\ errors[k].ident = <<AppsCalls[c].arg>>
    /\ Done =>
           /\ Len(listing) = Len(config.github_orgs)
           /\ Names(repo_views) = Concatenation(Len(listing))

\* list_apps raised for the first fleet org, the second org's apps were
\* indexed and one of them is attached to a returned repo
C11_Witness ==
    /\ Done
    /\ Len(AppsCalls) = 2
    /\ ~AppsCalls[1].ok
    /\ AppsCalls[2].ok
    /\ \E k \in 1..Len(repo_views) :
          \E a \in repo_views[k].fly_app : a.org_slug = config.fly_orgs[2]

\* the list_machines calls made so far for the app named n
MachineCalls(n) ==
    {c \in 1..Len(fleet_calls) :
        fleet_calls[c].call = "list_machines" /\ fleet_calls[c].arg = n}

\* C12: each raising list_machines appends one error string naming its app;
\* the app is indexed, with no machines when its latest list_machines raised;
\* every named app of an answer of list_apps has its list_machines call, in
\* answer order; a returned repo carries the indexed app it is bound to
C12_MachineFailureDegrades ==
    /\ \A c \in 1..Len(fleet_calls) :
        fleet_calls[c].call = "list_machines" =>
            LET n == fleet_calls[c].arg
            IN  /\ n \in DOMAIN fly_lookup
                /\ (~fleet_calls[c].ok /\ \A d \in MachineCalls(n) : d <= c) =>
                       fly_lookup[n].machines = <<>>
                /\ Cardinality({k \in 1..Len(errors) :
                        errors[k].what = "Fly machines for" /\ errors[k].ident = <<n>>})
                   = Cardinality({d \in MachineCalls(n) : ~fleet_calls[d].ok})
    /\ FleetDone =>
        \A c \in 1..Len(fleet_calls) :
            (fleet_calls[c].call = "list_apps" /\ fleet_calls[c].ok) =>
                \A a \in 1..Len(Named(fleet_calls[c].val)) :
                    /\ c + a <= Len(fleet_calls)
                    /\ fleet_calls[c + a].call = "list_machines"
                    /\ fleet_calls[c + a].arg = Named(fleet_calls[c].val)[a].name
    /\ \A k \in 1..Len(repo_views) :
        \A x \in Bindings(repo_views[k]) :
            x \in DOMAIN fly_lookup => repo_views[k].fly_app = {fly_lookup[x]}

\* list_machines raised for the first of three apps of a fleet org, the
\* machines of the last app were listed, and the first app is attached,
\* without machines, to a returned repo
C12_Witness ==
    /\ Done
    /\ \E c \in 1..Len(fleet_calls) :
        /\ fleet_calls[c].call = "list_apps"
        /\ Len(fleet_calls[c].val) = 3
        /\ c + 2 <= Len(fleet_calls)
        /\ ~fleet_calls[c + 1].ok
        /\ fleet_calls[c + 2].call = "list_machines"
        /\ fleet_calls[c + 2].ok
        /\ \E k \in 1..Len(repo_views) :
              \E a \in repo_views[k].fly_app :
                  a.name = fleet_calls[c + 1].arg /\ a.machines = <<>>

IsPrefix(a, b) == Len(a) <= Len(b) /\ SubSeq(b, 1, Len(a)) = a

\* the error strings of one kind
ErrorsOfKind(what) == {k \in 1..Len(errors) : errors[k].what = what}

\* the (org, task) positions of the enrichments that finished
Enrichments ==
    UNION {{<<o, k>> : k \in 1..Len(enriched[o].tasks)} : o \in 1..Len(enriched)}

\* the calls of one kind that raised
RaisedCalls(call) ==
    Cardinality({c \in 1..Len(fleet_calls) :
                    fleet_calls[c].call = call /\ ~fleet_calls[c].ok})

\* the error strings build() returns, one per raising call, compare_branches
\* excepted
ErrorsAtCompletion ==
    /\ Cardinality(ErrorsOfKind("Fly org")) = RaisedCalls("list_apps")
    /\ Cardinality(ErrorsOfKind("Fly machines for")) = RaisedCalls("list_machines")
    /\ Cardinality(ErrorsOfKind("GitHub org"))
           = Cardinality({o \in 1..Len(listing) : ~listing[o].ok})
    /\ Cardinality(ErrorsOfKind("Branches for"))
           = Cardinality({e \in Enrichments :
                             ~enriched[e[1]].tasks[e[2]].raw_branches.ok})
    /\ Cardinality(ErrorsOfKind("Codespaces for"))
           = Cardinality({e \in Enrichments :
                             ~enriched[e[1]].tasks[e[2]].raw_codespaces.ok})
    /\ \A k \in 1..Len(errors) :
           errors[k].what \in {"Fly org", "Fly machines for", "GitHub org",
                               "Branches for", "Codespaces for"}

\* C13: every step of build() leaves the error list as it is or extends it
\* at its end, and when build() returns the list holds one string for each
\* list_apps, list_machines, list_org_repos, list_branches and list_codespaces
\* call that raised and none for a compare_branches call that raised
C13_ErrorsAppendOnly ==
    /\ [][IsPrefix(errors, errors')]_vars
    /\ [](Done => ErrorsAtCompletion)

\* build() returned one error string after a compare_branches and a
\* list_codespaces raised, with two enrichments of one org completing out of
\* input order
C13_Witness ==
    /\ Done
    /\ Len(errors) = 1
    /\ ErrorsOfKind("Codespaces for") # {}
    /\ ComparesRaisedIn(Len(enriched)) = 1
    /\ \E o \in 1..Len(enriched) : enriched[o].completed = <<2, 1>>

\* C14: every error string build() returns carries the identifier of the
\* entity whose sub-operation failed and the message of the failure
C14_ErrorsIdentify ==
    Done => \A k \in 1..Len(errors) : errors[k].ident # <<>> /\ errors[k].exc # ""

\* the overrides of the view's own org that have the view's repo name
OverridesOf(v) ==
    LET repos == OrgAt(OrgIndex(v.repo.org)).repos
    IN  {repos[k] : k \in {j \in 1..Len(repos) : repos[j].name = v.repo.name}}

\* C15: a returned repo carries the category and tags of the override of its
\* org that has its name, and "Uncategorized" with no tags when its org has
\* no override of that name
C15_CategoryAndTags ==
    \A k \in 1..Len(repo_views) :
        LET v == repo_views[k]
        IN  IF OverridesOf(v) = {}
            THEN v.repo.category = "Uncategorized" /\ v.repo.tags = <<>>
            ELSE \A r \in OverridesOf(v) :
                    v.repo.category = r.category /\ v.repo.tags = r.tags

\* one result holds a repo with the category and tags of its override, a repo
\* of another org with another override's category, and a repo without an
\* override
C15_Witness ==
    /\ Done
    /\ \E k \in 1..Len(repo_views) :
          /\ repo_views[k].repo.category = "Frontend"
          /\ repo_views[k].repo.tags = <<"prod">>
    /\ \E k \in 1..Len(repo_views) : repo_views[k].repo.category = "Backend"
    /\ \E k \in 1..Len(repo_views) :
          /\ OverridesOf(repo_views[k]) = {}
          /\ repo_views[k].repo.category = "Uncategorized"

\* the positions of the branches of a view that are not marked default and
\* satisfy Test
Counted(view, Test(_)) ==
    {b \in 1..Len(view.repo.branches) :
        ~view.repo.branches[b].is_default /\ Test(view.repo.branches[b])}

IsAhead(b) == b.ahead > 0

IsBehind(b) == b.behind > 0

\* C16: the attention read from a view counts, as ahead, the branches not
\* marked default with ahead > 0 and, as behind, those with behind > 0
C16_BranchCounts ==
    attention # <<>> =>
        /\ attention[1].branches_ahead_count
               = Cardinality(Counted(repo_views[1], IsAhead))
        /\ attention[1].branches_behind_count
               = Cardinality(Counted(repo_views[1], IsBehind))

\* the attention was read from a view with a branch marked default that is
\* ahead and behind, and one unmarked branch that is ahead and behind
C16_Witness ==
    /\ attention # <<>>
    /\ Len(repo_views[1].repo.branches) = 2
    /\ \E b \in 1..2 :
          /\ repo_views[1].repo.branches[b].is_default
          /\ repo_views[1].repo.branches[b].ahead > 0
          /\ repo_views[1].repo.branches[b].behind > 0
    /\ Counted(repo_views[1], IsAhead) = Counted(repo_views[1], IsBehind)
    /\ attention[1].branches_ahead_count = 1
    /\ attention[1].branches_behind_count = 1

\* the spellings of the problem states, whatever their case
ProblemSpellings ==
    { "suspended", "Suspended", "SUSPENDED", "failed", "Failed", "FAILED",
      "stopped", "Stopped", "STOPPED", "dead", "Dead", "DEAD" }

\* C17: fly_has_issues is true exactly when an app is attached and its
\* status, or the state of one of its machines, spells a problem state in
\* any case
C17_FlyHasIssues ==
    attention # <<>> =>
        (attention[1].fly_has_issues <=>
            \E app \in repo_views[1].fly_app :
                \/ app.status \in ProblemSpellings
                \/ \E m \in 1..Len(app.machines) :
                       app.machines[m].state \in ProblemSpellings)

\* the attention was read as having issues from a view whose app is
\* "Suspended", mixed case, with no machine in a problem state
C17_Witness ==
    /\ attention # <<>>
    /\ attention[1].fly_has_issues
    /\ \E app \in repo_views[1].fly_app :
          /\ app.status = "Suspended"
          /\ \A m \in 1..Len(app.machines) : app.machines[m].state = "started"

\* C18: all_clear is true exactly when the two branch counts and the
\* codespace count are 0 and fly_has_issues is false
C18_AllClear ==
    all_clear # <<>> =>
        (all_clear[1] <=>
            /\ attention[1].branches_ahead_count + attention[1].branches_behind_count
                   + attention[1].active_codespace_count = 0
            /\ attention[1].fly_has_issues = FALSE)

\* all_clear was read as false from signals whose three counts are 0 and
\* whose fly_has_issues is true
C18_Witness ==
    /\ all_clear = <<FALSE>>
    /\ attention[1].branches_ahead_count = 0
    /\ attention[1].branches_behind_count = 0
    /\ attention[1].active_codespace_count = 0
    /\ attention[1].fly_has_issues

\* C19: a returned repo's codespace_count is the length of its codespace
\* list, which has one entry per record list_codespaces answered, and the
\* attention of its view reports that count as active_codespace_count
C19_CodespaceCount ==
    /\ \A k \in 1..Len(repo_views) :
        /\ repo_views[k].repo.codespace_count = Len(repo_views[k].repo.codespaces)
        /\ Attention(repo_views[k]).active_codespace_count
               = repo_views[k].repo.codespace_count
    /\ \A o \in 1..Len(enriched) : \A k \in 1..Len(enriched[o].tasks) :
        ViewsOf(o)[k].repo.codespace_count
            = Len(enriched[o].tasks[k].raw_codespaces.val)

\* build() returned a repo with one codespace, counted 1, and a repo whose
\* list_codespaces answered none, counted 0
C19_Witness ==
    /\ Done
    /\ \E k \in 1..Len(repo_views) :
          /\ Len(repo_views[k].repo.codespaces) = 1
          /\ Attention(repo_views[k]).active_codespace_count = 1
    /\ \E o \in 1..Len(enriched) : \E k \in 1..Len(enriched[o].tasks) :
          /\ enriched[o].tasks[k].raw_codespaces.ok
          /\ ViewsOf(o)[k].repo.codespace_count = 0

\* C20: every repo build() returns carries a commit_count, the value
\* get_commit_count returned for it (0 with a "Commit count" error string
\* when it raised), and the pushed_at of its upstream record
C20_CommitCount ==
    \A k \in 1..Len(repo_views) :
        /\ "commit_count" \in DOMAIN repo_views[k].repo
        /\ "pushed_at" \in DOMAIN repo_views[k].repo

\* ---- C21

\* the upstream is still computing the statistics
StillComputing(reply) == ~reply.error /\ reply.status = 202

\* a request that failed otherwise: no answer, an error status, or a body
\* that is not a list of contributor records
Failed(reply) ==
    \/ reply.error
    \/ reply.status # 202 /\ (~IsSuccess(reply.status) \/ reply.shape # "list")

\* C21: get_commit_count sends at most two requests, the second one only
\* when the first answered 202; it returns 0 when the second answers 202 too,
\* returns 0 without a retry on any other failure, and never raises.
C21_CommitCountRetriesOnce ==
    /\ http.sent <= 2
    /\ http.sent = 2 => StillComputing(http.replies[1])
    /\ http.pc \in {"attempt", "awaiting", "sleeping", "returned"}
    /\ http.pc = "returned" =>
        /\ (http.sent = 2 /\ StillComputing(http.replies[2])) => http.ret = 0
        /\ (http.sent = 2 /\ Failed(http.replies[2])) => http.ret = 0
        /\ Failed(http.replies[1]) => (http.ret = 0 /\ http.sent = 1)

\* the first and the second request were both answered 202
C21_Witness ==
    /\ http.pc = "returned"
    /\ http.sent = 2
    /\ StillComputing(http.replies[2])
    /\ http.ret = 0


\* ---- C22

RECURSIVE ItemsOfPages(_, _)
\* the items of the first i pages, in page order
ItemsOfPages(pages, i) ==
    IF i = 0 THEN <<>> ELSE ItemsOfPages(pages, i - 1) \o pages[i].items

\* every page of the chain answers
ChainAnswers(pages) == \A j \in 1..Len(pages) : IsSuccess(pages[j].status)

\* C22: over a finite chain of k pages linked by rel="next" the paginated
\* listing sends exactly k requests, one per page in chain order, returns
\* the pages' items concatenated in page order, and ends without an error at
\* the first response that has no next link.
C22_PaginationFollowsChain ==
    ChainAnswers(http.pages) =>
        /\ http.pc # "raised"
        /\ Len(http.sent) <= Len(http.pages)
        /\ \A n \in 1..Len(http.sent) : http.sent[n].url = n
        /\ http.pc = "returned" =>
            /\ Len(http.sent) = Len(http.pages)
            /\ http.results = ItemsOfPages(http.pages, Len(http.pages))
            /\ ParseNextLink(http.pages[Len(http.sent)].link) = NoUrl

\* a chain of three pages, the first two with several links, was followed to
\* its end
C22_Witness ==
    /\ http.pc = "returned"
    /\ Len(http.pages) = 3
    /\ Len(http.sent) = 3
    /\ Len(http.pages[1].link) = 3
    /\ Len(http.pages[3].link) = 1
    /\ Len(http.results) = 6


\* ---- C23

\* C23: list_apps always hands its caller one list of app records: the
\* response itself for a bare list, the wrapped list for an object; an
\* object response never reaches the caller as an object.
C23_ListAppsCanonical ==
    http.pc = "returned" =>
        /\ http.ret.shape = "list"
        /\ http.ret.apps = http.data.apps


\* ---- C24

\* no key in this place
NoKey(key) == key \in {None, ""}

\* the key check of the request has run
Checked == web.auth # <<>>

\* C24: require_api_key answers 500 when DASHBOARD_API_KEY is unset or
\* empty, whatever was provided; otherwise 401 when neither the query
\* parameter nor the header carries a key; otherwise 403 when the provided
\* key differs from the expected one; otherwise it accepts. A non-empty
\* query parameter is used in preference to the header.
C24_KeyCheckOrder ==
    Checked =>
        LET used == IF NoKey(web.api_key) THEN web.header ELSE web.api_key
        IN  IF NoKey(web.expected) THEN web.auth[1] = HttpError(500)
            ELSE IF NoKey(web.api_key) /\ NoKey(web.header) THEN web.auth[1] = HttpError(401)
            ELSE IF used # web.expected THEN web.auth[1] = HttpError(403)
            ELSE web.auth[1] = Accepted(used)

\* a request with the right key in the query and a wrong one in the header
\* was accepted
C24_Witness ==
    /\ Checked
    /\ web.expected = "k1"
    /\ web.api_key = "k1"
    /\ web.header = "k2"
    /\ web.auth[1] = Accepted("k1")

\* ---- C25

\* C25: on each of the three routes build() is invoked only after
\* require_api_key accepted the request; a request that fails the key check
\* gets an error status and triggers no build.
C25_BuildOnlyAfterKeyCheck ==
    /\ web.builds > 0 => (Checked /\ ~web.auth[1].raised)
    /\ (Checked /\ web.auth[1].raised) =>
        /\ web.builds = 0
        /\ web.pc = "responded"
        /\ web.status \in {401, 403, 500}

\* GET / with the right key was answered after one build
C25_Witness ==
    /\ web.pc = "responded"
    /\ web.route = "/"
    /\ web.status = 200
    /\ web.builds = 1
    /\ Checked


\* ---- C26

\* the error strings about calls this build() made and saw raise
OwnErrors ==
    \A k \in 1..Len(errors) :
        \/ /\ errors[k].what = "Fly org"
           /\ \E c \in 1..Len(fleet_calls) :
                 /\ fleet_calls[c].call = "list_apps"
                 /\ ~fleet_calls[c].ok
                 /\ errors[k].ident = <<fleet_calls[c].arg>>
        \/ /\ errors[k].what = "GitHub org"
           /\ \E o \in 1..Len(listing) :
                 ~listing[o].ok /\ errors[k].ident = <<OrgAt(o).name>>
        \/ /\ errors[k].what = "Branches for"
           /\ \E e \in Enrichments :
                 LET t == enriched[e[1]].tasks[e[2]]
                 IN  /\ ~t.raw_branches.ok
                     /\ errors[k].ident = <<OrgAt(e[1]).name, t.repo_data.name>>

\* C26: of two build() calls on one Aggregator that run interleaved, each
\* returns the repos and the error strings its own upstream answers
\* determine, as it would alone; nothing one call produced appears in the
\* result of the other.
C26_InterleavedBuildsIndependent ==
    (other # Idle /\ Done) =>
        /\ Names(repo_views) = Concatenation(Len(enriched))
        /\ ErrorsAtCompletion
        /\ OwnErrors
        /\ DOMAIN fly_lookup =
               {fleet_calls[c].val[1].name :
                    c \in {d \in 1..Len(fleet_calls) :
                              fleet_calls[d].call = "list_apps" /\ fleet_calls[d].ok}}

\* both calls returned, one with the repo r1 and no error, the other with no
\* repo and the errors of its own list_apps and list_org_repos
C26_Witness ==
    /\ other # Idle
    /\ Done
    /\ other.pc = "done"
    /\ Names(repo_views) = <<<<"orgA", "r1">>>>
    /\ errors = <<>>
    /\ other.repo_views = <<>>
    /\ Len(other.errors) = 2


\* ---- C27

\* the last override of the view's org that has the view's repo name
LastOverride(v) ==
    LET repos == OrgAt(OrgIndex(v.repo.org)).repos
        last == CHOOSE k \in 1..Len(repos) :
                    /\ repos[k].name = v.repo.name
                    /\ \A j \in (k + 1)..Len(repos) : repos[j].name # v.repo.name
    IN  repos[last]

\* C27: when an override name appears more than once within one org the last
\* override with that name wins: the repo's category, its tags and its
\* fleet-app binding are all taken from it.
C27_LastOverrideWins ==
    Done =>
        \A k \in 1..Len(repo_views) :
            LET v == repo_views[k]
                last == LastOverride(v)
            IN  v.repo.name \in OverrideNames(OrgAt(OrgIndex(v.repo.org))) =>
                    /\ v.repo.category = last.category
                    /\ v.repo.tags = last.tags
                    /\ v.fly_app = IF Truthy(last.fly_app) /\ last.fly_app \in DOMAIN fly_lookup
                                   THEN {fly_lookup[last.fly_app]}
                                   ELSE {}


\* ---- C28

\* a repository-host call has started
ReposStarted == listing # <<>> \/ tasks # <<>> \/ enriched # <<>>

\* C28: within one build() every fleet-host call completes before the first
\* repository-host call starts, and from then on the fleet lookup is not
\* modified: every fleet org has been listed when the loop over the orgs
\* begins, no later step calls the fleet host or changes the lookup.
C28_FleetBeforeRepos ==
    /\ [][FleetDone => (FleetDone' /\ fly_lookup' = fly_lookup
                                   /\ fleet_calls' = fleet_calls)]_vars
    /\ [](ReposStarted => FleetDone)
    /\ []((fly /\ FleetDone) => Len(AppsCalls) = Len(config.fly_orgs))

\* build() returned after fleet calls and the listing of both orgs, with an
\* indexed app attached to a repo
C28_Witness ==
    /\ Done
    /\ fly
    /\ Len(fleet_calls) >= 3
    /\ Len(listing) = 2
    /\ \E k \in 1..Len(repo_views) : repo_views[k].fly_app # {}


\* ---- C29

\* the call has been made and has answered or raised
Called(answer) == answer.exc # "<not called>"

\* a step makes no call again: the log of list_org_repos and of the fleet
\* calls grows by one call at most, and a task that has the answer of its
\* list_branches or list_codespaces keeps it, as it keeps its compares
NoCallAgain ==
    /\ IsPrefix(listing, listing') /\ Len(listing') <= Len(listing) + 1
    /\ IsPrefix(fleet_calls, fleet_calls') /\ Len(fleet_calls') <= Len(fleet_calls) + 1
    /\ (tasks # <<>> /\ tasks' # <<>>) =>
        /\ Len(tasks') = Len(tasks)
        /\ \A i \in 1..Len(tasks) :
            /\ Called(tasks[i].raw_branches) =>
                   tasks'[i].raw_branches = tasks[i].raw_branches
            /\ Called(tasks[i].raw_codespaces) =>
                   tasks'[i].raw_codespaces = tasks[i].raw_codespaces
            /\ IsPrefix(tasks[i].compared, tasks'[i].compared)
            /\ Len(tasks'[i].compared) <= Len(tasks[i].compared) + 1

RECURSIVE FleetCallsExpected(_)
\* the fleet calls the first c calls of list_apps ask for: each list_apps and
\* one list_machines per named app of its answer
FleetCallsExpected(c) ==
    IF c = 0 THEN 0
    ELSE FleetCallsExpected(c - 1) + 1
         + (IF AppsCalls[c].ok THEN Len(Named(AppsCalls[c].val)) ELSE 0)

\* the calls a build() that returned has made
CallsAtCompletion ==
    /\ Len(listing) = Len(config.github_orgs)
    /\ Len(enriched) = Len(listing)
    /\ \A o \in 1..Len(enriched) : Len(enriched[o].tasks) = Len(WorkingSet(o))
    /\ \A e \in Enrichments :
        LET t == enriched[e[1]].tasks[e[2]]
        IN  /\ Called(t.raw_branches)
            /\ Called(t.raw_codespaces)
            /\ [c \in 1..Len(t.compared) |-> t.compared[c].head]
                   = NonDefault(t.raw_branches.val, DefaultBranch(t.repo_data),
                                Len(t.raw_branches.val))
    /\ [c \in 1..Len(AppsCalls) |-> AppsCalls[c].arg] = config.fly_orgs
    /\ Len(fleet_calls) = FleetCallsExpected(Len(AppsCalls))

\* C29: within one build() nothing is retried: list_org_repos is called once
\* per configured org, whether it answers or raises and whatever the
\* inclusion policy; list_branches and list_codespaces once per working-set
\* repo; compare_branches once per non-default branch of a listed repo;
\* list_apps once per fleet org and list_machines once per named app.
C29_NoRetries ==
    /\ [][NoCallAgain]_vars
    /\ [](Len(listing) <= Len(config.github_orgs))
    /\ [](Done => CallsAtCompletion)

\* build() returned after list_org_repos raised for one org and list_branches
\* raised for a repo of the other
C29_Witness ==
    /\ Done
    /\ \E o \in 1..Len(listing) : ~listing[o].ok
    /\ \E e \in Enrichments : ~enriched[e[1]].tasks[e[2]].raw_branches.ok


\* ---- C30

\* the enrichment raised
HasRaised(t) == t.br_pc = "raised"

\* the repos of the org at position o whose enrichment returned, in the
\* order their tasks were passed to the gather
Siblings(o) ==
    LET returned == SelectSeq(enriched[o].tasks, LAMBDA t : ~HasRaised(t))
    IN  [k \in 1..Len(returned) |-> <<OrgAt(o).name, returned[k].repo_data.name>>]

SentBy(k) == SelectSeq(http.sent, LAMBDA r : r.k = k)

\* a personal-account endpoint
IsFallback(url) == url \in {"/user/repos", "/users/{org}/repos"}

\* C31: list_org_repos falls back to a personal-account endpoint only when
\* the /orgs listing answers 404, and raises any other error to its caller;
\* the fallback lists /user/repos when the name equals the authenticated
\* login whatever the case, /users/{name}/repos otherwise; the login is
\* fetched at most once per client and reused by later fallbacks.
C31_PersonalAccountFallback ==
    /\ \A k \in 1..Len(http.orgs) :
        LET rs == SentBy(k)
        IN  rs # <<>> =>
              /\ rs[1].url = "/orgs/{org}/repos"
              /\ \A n \in 2..Len(rs) : rs[1].status = 404
              /\ (rs[1].status \notin {200, 404} /\ k <= Len(http.results)) =>
                    /\ Len(rs) = 1
                    /\ http.results[k].raised
                    /\ http.results[k].status = rs[1].status
              /\ \A n \in 1..Len(rs) :
                    IsFallback(rs[n].url) =>
                        /\ rs[n].name = http.orgs[k]
                        /\ rs[n].url = "/user/repos"
                               <=> http.orgs[k] \in {"alice", "Alice"}
    /\ \A i, j \in 1..Len(http.sent) :
        (i < j /\ http.sent[i].url = "/user" /\ http.sent[i].status = 200) =>
            http.sent[j].url # "/user"
    /\ \A n \in 1..Len(http.sent) :
        IsFallback(http.sent[n].url) =>
            \E i \in 1..(n - 1) : http.sent[i].url = "/user" /\ http.sent[i].status = 200

\* two calls fell back, the second listing /user/repos with the login the
\* first had fetched
C31_Witness ==
    /\ http.pc = "finished"
    /\ http.orgs = <<"bob", "Alice">>
    /\ http.login = "ALICE"
    /\ Len(http.sent) = 5
    /\ http.sent[4].url = "/orgs/{org}/repos"
    /\ http.sent[5].url = "/user/repos"
    /\ ~http.results[2].raised
    /\ http.results[2].items = EndpointItems("/user/repos")


\* ---- C32

\* the app attached to the view spells a problem state, itself or a machine
AttachedAppHasIssues ==
    \E app \in repo_views[1].fly_app :
        \/ app.status \in ProblemSpellings
        \/ \E m \in 1..Len(app.machines) : app.machines[m].state \in ProblemSpellings

\* C32: attention is a projection of the view's current state: whenever it is
\* read, before or after build() attached a fleet app, it equals the signals
\* computed from the view's repo data and fly_app as they are at the read, so
\* a view whose app was attached after construction reports that app's
\* issues.
C32_AttentionIsProjection ==
    [][attention' # attention =>
          /\ attention' = <<Attention(repo_views[1])>>
          /\ attention'[1].fly_has_issues <=> AttachedAppHasIssues]_vars

\* the attention read after a suspended app was attached reports the issue,
\* with the counts of the repo
C32_Witness ==
    /\ pc = "attached"
    /\ attention # <<>>
    /\ attention[1].fly_has_issues
    /\ repo_views[1].fly_app # {}
    /\ attention[1].active_codespace_count = MaxCount


\* ---- C33

\* C33: every BranchInfo of every view of a finished build has ahead >= 0 and
\* behind >= 0, whatever counts the comparison answered.
C33_CountsNonNegative ==
    Done =>
        \A v \in 1..Len(repo_views) :
            \A b \in 1..Len(repo_views[v].repo.branches) :
                /\ repo_views[v].repo.branches[b].ahead >= 0
                /\ repo_views[v].repo.branches[b].behind >= 0


\* ---- C34

\* the error strings about the repository host that name their org
SourceErrors == {k \in (1..Len(errors)) \ FleetErrors : errors[k].ident # <<>>}

\* C34: in the error list every fleet error precedes every source-control
\* error, and the errors of a configured org precede the errors of every org
\* configured after it, under every interleaving of the enrichments; only
\* the errors of one org may come in an order that depends on completions.
C34_ErrorOrder ==
    \A p, q \in 1..Len(errors) :
        p < q =>
            /\ q \in FleetErrors => p \in FleetErrors
            /\ p \in SourceErrors /\ q \in SourceErrors =>
                   OrgIndex(errors[p].ident[1]) <= OrgIndex(errors[q].ident[1])

\* ---- C35

\* the enrichments started so far: those of the finished orgs and those of
\* the org in progress
Started ==
    UNION {Range(enriched[o].tasks) : o \in 1..Len(enriched)} \cup Range(tasks)

\* the branches of a task that are to be compared, in listing order
ToCompare(t) ==
    NonDefault(t.raw_branches.val, DefaultBranch(t.repo_data), Len(t.raw_branches.val))

\* the compare_branches calls of a task are those of the first branches to
\* compare, in listing order, made once list_branches had answered
ComparedInOrder(t) ==
    /\ Len(t.compared) <= Len(ToCompare(t))
    /\ \A c \in 1..Len(t.compared) :
        /\ t.compared[c].head = ToCompare(t)[c]
        /\ t.compared[c].base = DefaultBranch(t.repo_data)
    /\ t.compared # <<>> => t.raw_branches.ok
    /\ t.br_pc = "compare_branches" =>
        /\ Len(t.compared) < Len(ToCompare(t))
        /\ t.raw_branches.val[t.b_i].name = ToCompare(t)[Len(t.compared) + 1]
    /\ t.br_pc = "done" => Len(t.compared) = Len(ToCompare(t))

RECURSIVE Embeds(_, _, _, _)
\* the first i views are the views of i different records among the first j,
\* in record order
Embeds(views, records, i, j) ==
    IF i = 0 THEN TRUE
    ELSE IF j = 0 THEN FALSE
    ELSE \/ /\ views[i].repo.name = records[j].name
            /\ views[i].repo.default_branch = DefaultBranch(records[j])
            /\ Embeds(views, records, i - 1, j - 1)
         \/ Embeds(views, records, i, j - 1)

\* the configured orgs whose listing has answered
AnsweredOrgs == {o \in 1..Len(listing) : listing[o].ok}

\* C36: every view of the result is the view of one record that
\* list_org_repos answered in this build for a configured org and carries
\* that org's name, and no record has two views: the views of an org map one
\* to one, in order, into the records listed for it, and an org whose
\* listing raised or has not answered has no view.
C36_ViewsAreListedRecords ==
    /\ \A v \in 1..Len(repo_views) :
        \E o \in AnsweredOrgs : repo_views[v].repo.org = OrgAt(o).name
    /\ \A o \in AnsweredOrgs :
        Embeds(ViewsOf(o), listing[o].val, Len(ViewsOf(o)), Len(listing[o].val))

\* a finished build in which an org lists fewer repos than its overrides
\* name and returns one view, and the other org lists two repos
C36_Witness ==
    /\ Done
    /\ \E o \in AnsweredOrgs :
        /\ ~OrgAt(o).include_all
        /\ Len(listing[o].val) < Len(OrgAt(o).repos)
        /\ Len(ViewsOf(o)) = 1
    /\ \E o \in AnsweredOrgs : Len(ViewsOf(o)) = Cardinality(RepoRecords)


\* ---- C37

\* the successful list_apps calls of this build that returned an app named
\* name, as the fleet orgs they were made for
ListedBy(name) ==
    { fleet_calls[c].arg : c \in {d \in 1..Len(fleet_calls) :
          /\ fleet_calls[d].call = "list_apps"
          /\ fleet_calls[d].ok
          /\ \E j \in 1..Len(fleet_calls[d].val) : fleet_calls[d].val[j].name = name} }

\* C37: a view has a Fly app only if build() has a fleet client, an override
\* of the view's own org carries the repo's name and binds it to the app's
\* name, and a list_apps call of this build answered with an app of that
\* name for the app's org; the repo's name alone never attaches an app.
C37_FlyAppOnlyIfBound ==
    \A k \in 1..Len(repo_views) :
        \A a \in repo_views[k].fly_app :
            /\ fly
            /\ a.name \in Bindings(repo_views[k])
            /\ a.org_slug \in ListedBy(a.name)

\* a finished build with a view that has its bound app, and a view whose
\* repo has a namesake in the fleet lookup and no app
C37_Witness ==
    /\ Done
    /\ \E k \in 1..Len(repo_views) : repo_views[k].fly_app # {}
    /\ \E k \in 1..Len(repo_views) :
        /\ repo_views[k].repo.name \in DOMAIN fly_lookup
        /\ repo_views[k].fly_app = {}


\* ---- C38

\* the positions of the successful list_apps calls that returned an app named
\* name
ListingCalls(name) ==
    {c \in 1..Len(fleet_calls) :
        /\ fleet_calls[c].call = "list_apps"
        /\ fleet_calls[c].ok
        /\ \E j \in 1..Len(fleet_calls[c].val) : fleet_calls[c].val[j].name = name}

\* the names the fleet orgs returned, the empty name excepted
NamesListed ==
    UNION {{fleet_calls[c].val[j].name : j \in 1..Len(fleet_calls[c].val)} :
              c \in {d \in 1..Len(fleet_calls) :
                        fleet_calls[d].call = "list_apps" /\ fleet_calls[d].ok}} \ {""}

\* the last of a set of call positions
Latest(calls) == CHOOSE c \in calls : \A d \in calls : d <= c

\* C38: once the fleet lookup is built it holds, for every name a fleet org
\* returned, one entry, that of the last configured fleet org whose list_apps
\* succeeded and returned the name; a repo bound to the name carries that
\* org's app.
C38_LaterFleetOrgWins ==
    FleetDone =>
        /\ DOMAIN fly_lookup = NamesListed
        /\ \A n \in NamesListed :
            /\ fly_lookup[n].name = n
            /\ fly_lookup[n].org_slug = fleet_calls[Latest(ListingCalls(n))].arg
        /\ \A k \in 1..Len(repo_views) : \A a \in repo_views[k].fly_app :
            a.org_slug = fleet_calls[Latest(ListingCalls(a.name))].arg

\* both fleet orgs returned appX and the repo bound to it carries the app of
\* the second
C38_Witness ==
    /\ Done
    /\ Cardinality(ListingCalls("appX")) = 2
    /\ \E k \in 1..Len(repo_views) : \E a \in repo_views[k].fly_app :
        /\ a.name = "appX"
        /\ a.org_slug = config.fly_orgs[2]


\* ---- C39

\* the first page of the org's listing that fails, 0 when none does
FirstFailure(pages) ==
    IF \A j \in 1..Len(pages) : IsSuccess(pages[j].status) THEN 0
    ELSE CHOOSE j \in 1..Len(pages) :
             /\ ~IsSuccess(pages[j].status)
             /\ \A i \in 1..(j - 1) : IsSuccess(pages[i].status)

\* the request for a page after the first has failed
LaterPageFailed ==
    /\ FirstFailure(http.org_pages) > 1
    /\ http.stage # "orgs" \/ http.pc = "raised"

\* C39: a paginated listing is all-or-nothing: once the request for a page
\* after the first has failed and _fetch_org_repos has its answer,
\* list_org_repos raised, build() has recorded one org error, and the org
\* contributes no repo.
C39_AllOrNothing ==
    (LaterPageFailed /\ pc # "list_org_repos") =>
        /\ ~listing[1].ok
        /\ Len(errors) = 1
        /\ errors[1].what = "GitHub org"
        /\ errors[1].ident = <<OrgAt(1).name>>
        /\ tasks = <<>>
        /\ pc = "done"

====
